---------------------------- MODULE Spec2Model ----------------------------
(***************************************************************************)
(* A model of the example programs of the Solana security reference        *)
(* repository.  The "secure" programs:                                     *)
(*                                                                         *)
(*   incorrect_authority_check/src/secure.rs   variables auth_..          *)
(*   cpi_misuse/src/secure.rs                  variables cpi_..           *)
(*   reentrancy_risk/src/secure.rs             variables pool_..          *)
(*   unsafe_arithmetic/src/secure.rs           variables arith_..        *)
(*   missing_account_validation/src/secure.rs  variable validation_call  *)
(*                                                                         *)
(* and their "vulnerable" counterparts:                                    *)
(*                                                                         *)
(*   incorrect_authority_check/src/vulnerable.rs  unsafe_account, ..      *)
(*   unsafe_arithmetic/src/vulnerable.rs          unsafe_pool, ..         *)
(*   cpi_misuse/src/vulnerable.rs                 unsafe_cpi_call         *)
(*   reentrancy_risk/src/vulnerable.rs            variables vuln_..       *)
(*                                                                         *)
(* Each program has its own specification (SpecAuth, SpecCpi, SpecPool,    *)
(* SpecArith, SpecValidation, SpecUnsafeAuth, SpecUnsafeArith,             *)
(* SpecUnsafeCpi, SpecVulnPool); the variables of the other programs stay  *)
(* at their initial value.                                                 *)
(*                                                                         *)
(* The state is the account records as the instruction handlers read and   *)
(* write them through `&mut ctx.accounts.<x>`.  A handler that returns Err *)
(* after an assignment leaves that assignment in the record: undoing it is *)
(* the work of the host's transaction rollback, which is no code of these  *)
(* programs and is not part of the model.  A delegated call (CPI) is a     *)
(* synchronous sub-call whose callee may call back into the program.       *)
(*                                                                         *)
(* u64 is scaled down to 0..U64_MAX.                                       *)
(***************************************************************************)
EXTENDS Integers, Sequences, FiniteSets, TLC

VARIABLES
    user_account,   \* authority program: UserAccount {owner, balance} (+ created)
    auth_call,      \* authority program: the last instruction and its result
    auth_hist,      \* authority program: initial balance, sum of successful withdrawals
    cpi_call,       \* CPI program: the last instruction, the calls it issued, its result
    pool,           \* reentrancy program: PoolSafe {total_deposited, total_available, locked}
    user_deposit,   \* reentrancy program: the UserDeposit {owner, balance} accounts
    pool_stack,     \* reentrancy program: the handler activations, innermost last
    pool_ret,       \* reentrancy program: the activation that returned last, if none began since
    pool_calls,     \* reentrancy program: number of instructions begun
    arith_pool,     \* arithmetic program: Pool {total_deposited, .., total_minted}
    arith_call,     \* arithmetic program: the last instruction and its result
    validation_call, \* validation program: the last instruction, the transfer it issued, its result
    unsafe_account, \* vulnerable authority program: UserAccount {owner, balance}
    unsafe_auth_call, \* vulnerable authority program: the last instruction and its result
    unsafe_pool,    \* vulnerable arithmetic program: Pool {total_deposited, .., total_minted}
    unsafe_arith_call, \* vulnerable arithmetic program: the last instruction and its result
    unsafe_cpi_call, \* vulnerable CPI program: the last instruction, the call it issued, its result
    vuln_pool,      \* vulnerable reentrancy program: Pool {total_deposited, total_available}
    vuln_user,      \* vulnerable reentrancy program: one UserDeposit {owner, balance}
    vuln_stack,     \* vulnerable reentrancy program: the handler activations, innermost last
    vuln_ret,       \* vulnerable reentrancy program: the activation that returned last
    vuln_run        \* vulnerable reentrancy program: instructions begun, amount transferred out

auth_vars == <<user_account, auth_call, auth_hist>>

cpi_vars == <<cpi_call>>

pool_vars == <<pool, user_deposit, pool_stack, pool_ret, pool_calls>>

arith_vars == <<arith_pool, arith_call>>

validation_vars == <<validation_call>>

secure_vars == <<auth_vars, cpi_vars, pool_vars, arith_vars, validation_vars>>

unsafe_auth_vars == <<unsafe_account, unsafe_auth_call>>

unsafe_arith_vars == <<unsafe_pool, unsafe_arith_call>>

unsafe_cpi_vars == <<unsafe_cpi_call>>

vuln_pool_vars == <<vuln_pool, vuln_user, vuln_stack, vuln_ret, vuln_run>>

vulnerable_vars == <<unsafe_auth_vars, unsafe_arith_vars, unsafe_cpi_vars, vuln_pool_vars>>

vars == <<secure_vars, vulnerable_vars>>

-----------------------------------------------------------------------------
(* Bounds and shared types *)

\* u64::MAX, scaled down
U64_MAX == 65535

U64_MOD == U64_MAX + 1

U64 == 0..U64_MAX

\* Pubkeys of callers
Keys == {"alice", "bob"}

NoKey == "none"

\* u64::checked_sub
checked_sub(a, b) == IF a >= b THEN a - b ELSE -1

\* u64::checked_add
checked_add_wrapping(a, b) == (a + b) % U64_MOD

checked_add(a, b) == IF a + b <= U64_MAX THEN a + b ELSE -1

\* u64::checked_mul
checked_mul(a, b) == IF a * b <= U64_MAX THEN a * b ELSE -1

\* `a -= b` on u64 in a build without overflow checks
wrapping_sub(a, b) == (a - b + U64_MOD) % U64_MOD

-----------------------------------------------------------------------------
(* incorrect_authority_check/src/secure.rs *)

\* instruction amounts of the authority program
AuthAmounts == {0, 50, 60, U64_MAX}

\* initial balances of the authority program
AuthInitialAmounts == {0, 100, 110}

NoAuthCall ==
    [op |-> "none", authority |-> NoKey, is_signer |-> FALSE, amount |-> 0,
     result |-> "none", pre |-> [created |-> FALSE, owner |-> NoKey, balance |-> 0]]

InitAuth ==
    /\ user_account = [created |-> FALSE, owner |-> NoKey, balance |-> 0]
    /\ auth_call = NoAuthCall
    /\ auth_hist = [initial |-> 0, withdrawn |-> 0]

\* Signer<'info>: the account must have signed the transaction
SignerCheck_skip(is_signer) == TRUE

SignerCheck(is_signer) == is_signer

\* require_eq!(ctx.accounts.authority.key(), account.owner, Unauthorized)
AuthorityIsOwner_skip(authority, owner) == TRUE

AuthorityIsOwner(authority, owner) == authority = owner

\* require!(account.balance >= amount, InsufficientFunds)
SufficientFunds_skip(balance, amount) == TRUE

SufficientFunds(balance, amount) == balance >= amount

\* the handler initialize_safe: [result, account]
auth_initialize_safe(account, authority, initial_amount) ==
    [result |-> "Ok",
     account |-> [account EXCEPT !.created = TRUE,
                                 !.owner = authority,
                                 !.balance = initial_amount]]

\* the handler withdraw_safe: [result, account]
auth_withdraw_safe_funds_first(account, authority, amount) ==
    IF ~SufficientFunds(account.balance, amount)
    THEN [result |-> "InsufficientFunds", account |-> account]
    ELSE IF ~AuthorityIsOwner(authority, account.owner)
    THEN [result |-> "Unauthorized", account |-> account]
    ELSE [result |-> "Ok",
          account |-> [account EXCEPT !.balance = wrapping_sub(account.balance, amount)]]

auth_withdraw_safe(account, authority, amount) ==
    IF ~AuthorityIsOwner(authority, account.owner)
    THEN [result |-> "Unauthorized", account |-> account]
    ELSE IF ~SufficientFunds(account.balance, amount)
    THEN [result |-> "InsufficientFunds", account |-> account]
    ELSE [result |-> "Ok",
          account |-> [account EXCEPT !.balance = wrapping_sub(account.balance, amount)]]

\* The instruction initialize_safe: the InitializeSafe accounts are validated
\* (authority: Signer; user_account: init, which creates the account and fails
\* on one that exists), then the handler runs.
InitializeSafe(authority, is_signer, initial_amount) ==
    LET r == IF ~SignerCheck(is_signer)
             THEN [result |-> "AccountNotSigner", account |-> user_account]
             ELSE IF user_account.created
             THEN [result |-> "AccountAlreadyInUse", account |-> user_account]
             ELSE auth_initialize_safe(user_account, authority, initial_amount)
    IN /\ user_account' = r.account
       /\ auth_call' = [op |-> "initialize_safe", authority |-> authority,
                        is_signer |-> is_signer, amount |-> initial_amount,
                        result |-> r.result, pre |-> user_account]
       /\ auth_hist' = IF r.result = "Ok"
                       THEN [initial |-> initial_amount, withdrawn |-> 0]
                       ELSE auth_hist

\* The instruction withdraw_safe: the WithdrawSafe accounts are validated
\* (user_account: an existing UserAccount; authority: Signer), then the handler runs.
WithdrawSafe(authority, is_signer, amount) ==
    LET r == IF ~user_account.created
             THEN [result |-> "AccountNotInitialized", account |-> user_account]
             ELSE IF ~SignerCheck(is_signer)
             THEN [result |-> "AccountNotSigner", account |-> user_account]
             ELSE auth_withdraw_safe(user_account, authority, amount)
    IN /\ user_account' = r.account
       /\ auth_call' = [op |-> "withdraw_safe", authority |-> authority,
                        is_signer |-> is_signer, amount |-> amount,
                        result |-> r.result, pre |-> user_account]
       /\ auth_hist' = IF r.result = "Ok"
                       THEN [auth_hist EXCEPT !.withdrawn = @ + amount]
                       ELSE auth_hist

AuthInitialize ==
    \E authority \in Keys, is_signer \in BOOLEAN, initial_amount \in AuthInitialAmounts :
        /\ InitializeSafe(authority, is_signer, initial_amount)
        /\ UNCHANGED <<cpi_vars, pool_vars, arith_vars, validation_vars, vulnerable_vars>>

AuthWithdraw ==
    \E authority \in Keys, is_signer \in BOOLEAN, amount \in AuthAmounts :
        /\ WithdrawSafe(authority, is_signer, amount)
        /\ UNCHANGED <<cpi_vars, pool_vars, arith_vars, validation_vars, vulnerable_vars>>

NextAuth == AuthInitialize \/ AuthWithdraw

-----------------------------------------------------------------------------
(* cpi_misuse/src/secure.rs *)

\* "11111111111111111111111111111111" is the base58 form of the all-zero key
\* Pubkey::new_from_array([0; 32]): both declarations name the same identity
TRUSTED_PROGRAM_ID == "11111111111111111111111111111111"

\* spl_token::id()
SPL_TOKEN_ID == "spl_token"

\* program identities a request can present
ProgramKeys == {TRUSTED_PROGRAM_ID, SPL_TOKEN_ID, "evil_program"}

\* instruction_data payloads
InstructionData == {<<>>, <<1>>}

\* amounts of the CPI program
CpiAmounts == {0, 1}

\* bump seeds (u8, scaled down)
MaxBump == 3

Bumps == 0..MaxBump

\* Pubkey::create_program_address(&[b"trusted_seed", &[bump]], &crate::ID):
\* the derived key, or "InvalidSeeds" when the hash lies on the curve
create_program_address(bump) ==
    IF bump % 3 = 0 THEN "InvalidSeeds" ELSE "pda_" \o ToString(bump)

\* Pubkey::find_program_address(&[b"trusted_seed"], &crate::ID): the key of the
\* highest bump that derives one, with that bump
find_program_address ==
    LET valid == {b \in Bumps : create_program_address(b) # "InvalidSeeds"}
        bump == CHOOSE b \in valid : \A c \in valid : c <= b
    IN <<create_program_address(bump), bump>>

\* keys a request can present as pda_signer
PdaSignerKeys ==
    ({create_program_address(b) : b \in Bumps} \ {"InvalidSeeds"}) \cup {"alice"}

\* outcomes of the external contract
CpiOutcomes == {"Ok", "Err"}

NoCpiCall ==
    [op |-> "none", entered |-> FALSE, token_program |-> NoKey,
     target_program |-> NoKey, user_data_owner |-> NoKey, pda_signer |-> NoKey,
     bump |-> 0, amount |-> 0, data |-> <<>>, outcome |-> "Ok",
     issued |-> <<>>, result |-> "none"]

InitCpi == cpi_call = NoCpiCall

\* Program<'info, Token>: the account's key must be the token program's id
TokenProgramCheck_skip(token_program) == TRUE

TokenProgramCheck(token_program) == token_program = SPL_TOKEN_ID

\* the token program's transfer: it fails when the authority has not signed
\* the call, and otherwise as the external contract decides
token_transfer(authority_signed, outcome) ==
    IF authority_signed THEN outcome ELSE "Err"

\* `token::transfer(..)?`: the error of the call is returned to the caller
PropagateCpiResult_swallow(cpi_result) == "Ok"

MatchCpiResult_swallow(cpi_result) == "Ok"

PropagateCpiResult(cpi_result) == IF cpi_result = "Ok" THEN "Ok" ELSE "CpiError"

\* `match result { Ok(_) => Ok(()), Err(e) => Err(CustomError::CpiFailed.into()) }`
MatchCpiResult(cpi_result) == IF cpi_result = "Ok" THEN "Ok" ELSE "CpiFailed"

\* require_keys_eq!(ctx.accounts.target_program.key(), TRUSTED_PROGRAM_ID, ..)
TargetIsTrusted_skip(target_program) == TRUE

TargetIsTrusted(target_program) == target_program = TRUSTED_PROGRAM_ID

\* require_keys_eq!(ctx.accounts.user_data.owner, TRUSTED_PROGRAM_ID, ..)
UserDataOwnerIsTrusted(user_data_owner) == user_data_owner = TRUSTED_PROGRAM_ID

\* require_keys_eq!(ctx.accounts.pda_signer.key(), pda, ..)
PdaSignerIsDerived_skip(pda_signer) == TRUE

PdaSignerIsDerived(pda_signer) == pda_signer = find_program_address[1]

\* the handler safe_token_transfer: [result, issued]
safe_token_transfer(token_program, amount, outcome) ==
    IF token_program # SPL_TOKEN_ID
    THEN [result |-> "InvalidTokenProgram", issued |-> <<>>]
    ELSE [result |-> PropagateCpiResult(token_transfer(TRUE, outcome)),
          issued |-> <<[program |-> token_program, kind |-> "transfer",
                        amount |-> amount, signer |-> "authority",
                        returned |-> token_transfer(TRUE, outcome)]>>]

\* the handler safe_delegate_call: [result, issued]
safe_delegate_call(target_program, user_data_owner, instruction_data, outcome) ==
    IF ~TargetIsTrusted(target_program)
    THEN [result |-> "UntrustedProgram", issued |-> <<>>]
    ELSE IF ~UserDataOwnerIsTrusted(user_data_owner)
    THEN [result |-> "WrongAccountOwner", issued |-> <<>>]
    ELSE [result |-> MatchCpiResult(outcome),
          issued |-> <<[program |-> target_program, kind |-> "invoke",
                        amount |-> Len(instruction_data), signer |-> "none",
                        returned |-> outcome]>>]

\* the handler safe_delegate_with_pda: [result, issued]; the transfer is signed
\* for the key that the seeds b"trusted_seed", [bump] derive
safe_delegate_with_pda(pda_signer, token_program, bump, amount, outcome) ==
    IF ~PdaSignerIsDerived(pda_signer)
    THEN [result |-> "InvalidPdaSigner", issued |-> <<>>]
    ELSE LET signed == create_program_address(bump)
             returned == token_transfer(signed = pda_signer, outcome)
         IN [result |-> PropagateCpiResult(returned),
             issued |-> <<[program |-> token_program, kind |-> "transfer",
                           amount |-> amount, signer |-> signed,
                           returned |-> returned]>>]

\* The instruction safe_token_transfer: TransferSafeCpi is validated
\* (authority: Signer, token_program: Program<Token>), then the handler runs.
TransferSafeCpi(authority_signed, token_program, amount, outcome) ==
    LET ok == SignerCheck(authority_signed) /\ TokenProgramCheck(token_program)
        r == IF ~SignerCheck(authority_signed)
             THEN [result |-> "AccountNotSigner", issued |-> <<>>]
             ELSE IF ~TokenProgramCheck(token_program)
             THEN [result |-> "InvalidProgramId", issued |-> <<>>]
             ELSE safe_token_transfer(token_program, amount, outcome)
    IN cpi_call' = [NoCpiCall EXCEPT !.op = "safe_token_transfer", !.entered = ok,
                       !.token_program = token_program, !.amount = amount,
                       !.outcome = outcome, !.issued = r.issued, !.result = r.result]

\* The instruction safe_delegate_call: DeligateSafe is validated (owner: Signer),
\* then the handler runs.
DeligateSafe(owner_signed, target_program, user_data_owner, instruction_data, outcome) ==
    LET ok == SignerCheck(owner_signed)
        r == IF ~ok
             THEN [result |-> "AccountNotSigner", issued |-> <<>>]
             ELSE safe_delegate_call(target_program, user_data_owner,
                                     instruction_data, outcome)
    IN cpi_call' = [NoCpiCall EXCEPT !.op = "safe_delegate_call", !.entered = ok,
                       !.target_program = target_program,
                       !.user_data_owner = user_data_owner,
                       !.data = instruction_data,
                       !.outcome = outcome, !.issued = r.issued, !.result = r.result]

\* The instruction safe_delegate_with_pda: DelegateWithPda is validated
\* (token_program: Program<Token>), then the handler runs.
DelegateWithPda(pda_signer, token_program, bump, amount, outcome) ==
    LET ok == TokenProgramCheck(token_program)
        r == IF ~ok
             THEN [result |-> "InvalidProgramId", issued |-> <<>>]
             ELSE safe_delegate_with_pda(pda_signer, token_program, bump, amount, outcome)
    IN cpi_call' = [NoCpiCall EXCEPT !.op = "safe_delegate_with_pda", !.entered = ok,
                       !.pda_signer = pda_signer, !.token_program = token_program,
                       !.bump = bump, !.amount = amount,
                       !.outcome = outcome, !.issued = r.issued, !.result = r.result]

CpiTokenTransfer ==
    \E authority_signed \in BOOLEAN, token_program \in ProgramKeys,
       amount \in CpiAmounts, outcome \in CpiOutcomes :
        /\ TransferSafeCpi(authority_signed, token_program, amount, outcome)
        /\ UNCHANGED <<auth_vars, pool_vars, arith_vars, validation_vars, vulnerable_vars>>

CpiDelegateCall ==
    \E owner_signed \in BOOLEAN, target_program \in ProgramKeys,
       user_data_owner \in ProgramKeys, instruction_data \in InstructionData,
       outcome \in CpiOutcomes :
        /\ DeligateSafe(owner_signed, target_program, user_data_owner,
                        instruction_data, outcome)
        /\ UNCHANGED <<auth_vars, pool_vars, arith_vars, validation_vars, vulnerable_vars>>

CpiDelegateWithPda ==
    \E pda_signer \in PdaSignerKeys, token_program \in ProgramKeys, bump \in Bumps,
       amount \in CpiAmounts, outcome \in CpiOutcomes :
        /\ DelegateWithPda(pda_signer, token_program, bump, amount, outcome)
        /\ UNCHANGED <<auth_vars, pool_vars, arith_vars, validation_vars, vulnerable_vars>>

NextCpi == CpiTokenTransfer \/ CpiDelegateCall \/ CpiDelegateWithPda

-----------------------------------------------------------------------------
(* reentrancy_risk/src/secure.rs *)

\* deposit_safe and withdraw_safe instructions begun in one behaviour
MaxCalls == 3

\* activations nested in one another (an instruction plus its re-entrant calls)
MaxDepth == 2

\* the UserDeposit accounts and their recorded owners
Deposits == {"deposit_a", "deposit_b"}

DepositOwner == [d \in Deposits |-> IF d = "deposit_a" THEN "alice" ELSE "bob"]

\* amounts of withdraw_safe and of deposit_safe
WithdrawAmounts == {0, 1, U64_MAX}

DepositAmounts == {0, 2, U64_MAX}

\* The account a request presents as its authority: the key that signed for
\* it, or NoKey for an account that has not signed (no handler reads the key of
\* an account that has not signed).
Authorities == Keys \cup {NoKey}

\* keys presented as token_program
TokenPrograms == {SPL_TOKEN_ID, "evil_program"}

\* balances of the user_token account a deposit presents
TokenAmounts == {1, U64_MAX}

NoPoolRet ==
    [op |-> "none", user |-> "none", amount |-> 0, is_signer |-> FALSE,
     authorized |-> FALSE, entered |-> FALSE, token_program |-> NoKey,
     result |-> "none", set_lock |-> FALSE, issued |-> 0,
     reentered |-> FALSE, locked_at_entry |-> FALSE, depth |-> 0,
     pre |-> [total_deposited |-> 0, total_available |-> 0, locked |-> FALSE,
              balance |-> 0],
     post |-> [total_deposited |-> 0, total_available |-> 0, locked |-> FALSE,
               balance |-> 0]]

InitPool ==
    /\ pool = [created |-> FALSE, total_deposited |-> 0, total_available |-> 0,
               locked |-> FALSE]
    /\ user_deposit = [d \in Deposits |-> [owner |-> DepositOwner[d], balance |-> 0]]
    /\ pool_stack = <<>>
    /\ pool_ret = NoPoolRet
    /\ pool_calls = 0

\* what a handler sees of the pool and of its user_deposit account
Snapshot(user) ==
    [total_deposited |-> pool.total_deposited,
     total_available |-> pool.total_available,
     locked |-> pool.locked,
     balance |-> IF user \in Deposits THEN user_deposit[user].balance ELSE 0]

Top == pool_stack[Len(pool_stack)]

\* the innermost activation is blocked in its delegated transfer
InTransfer == pool_stack # <<>> /\ Top.pc = "transfer"

\* some activation of withdraw_safe is blocked in its delegated transfer
WithdrawInFlight ==
    \E i \in 1..Len(pool_stack) :
        pool_stack[i].op = "withdraw_safe" /\ pool_stack[i].pc = "transfer"

\* An instruction can begin as a transaction's instruction (no activation) or
\* from the callee of a delegated transfer that is in flight.
CanCall ==
    /\ pool_calls < MaxCalls
    /\ Len(pool_stack) < MaxDepth
    /\ pool_stack = <<>> \/ InTransfer

\* the innermost activation runs its statement at pc
Running(op, pc) == pool_stack # <<>> /\ Top.op = op /\ Top.pc = pc

\* authority is the account the request presents as its authority; authorized
\* says that it has signed and that its key is the owner recorded in the
\* user_deposit account
NewFrame(op, user, amount, authority) ==
    [op |-> op, user |-> user, amount |-> amount, is_signer |-> authority # NoKey,
     authorized |-> /\ authority # NoKey
                    /\ user \in Deposits
                    /\ authority = user_deposit[user].owner,
     entered |-> FALSE, token_program |-> NoKey, pc |-> "start",
     set_lock |-> FALSE, issued |-> 0,
     reentered |-> WithdrawInFlight, locked_at_entry |-> pool.locked,
     depth |-> Len(pool_stack) + 1, pre |-> Snapshot(user)]

\* the record of an activation f that returns result, leaving the accounts at post
Returned(f, result, post) ==
    [op |-> f.op, user |-> f.user, amount |-> f.amount, is_signer |-> f.is_signer,
     authorized |-> f.authorized, entered |-> f.entered,
     token_program |-> f.token_program, result |-> result, set_lock |-> f.set_lock,
     issued |-> f.issued, reentered |-> f.reentered,
     locked_at_entry |-> f.locked_at_entry, depth |-> f.depth,
     pre |-> f.pre, post |-> post]

\* the handler of activation f has been entered (its accounts were valid)
Entered(f) == [f EXCEPT !.entered = TRUE]

\* the handler of activation f has been entered with token_program as the
\* program of its delegated transfer
EnteredWith(f, token_program) ==
    [f EXCEPT !.entered = TRUE, !.token_program = token_program]

\* an instruction is rejected by the validation of its accounts or fails in
\* its checks: nothing is pushed
Reject(f, result) ==
    /\ pool_ret' = Returned(f, result, f.pre)
    /\ UNCHANGED <<pool, user_deposit, pool_stack>>

\* the innermost activation moves to the statement at pc
Goto(pc) == pool_stack' = [pool_stack EXCEPT ![Len(pool_stack)].pc = pc]

\* the innermost activation returns result; p and ud are the accounts it leaves
Return(result, p, ud) ==
    /\ pool_stack' = SubSeq(pool_stack, 1, Len(pool_stack) - 1)
    /\ pool_ret' = Returned(Top, result,
                            [total_deposited |-> p.total_deposited,
                             total_available |-> p.total_available,
                             locked |-> p.locked,
                             balance |-> ud[Top.user].balance])

\* require!(user.balance >= amount, InsufficientBalance)
HasBalance_skip(balance, amount) == TRUE

HasBalance(balance, amount) == balance >= amount

\* require!(pool.total_available >= amount, InsufficientPoolFunds)
PoolHasFunds(total_available, amount) == total_available >= amount

\* require!(!pool.locked, PoolLocked)
PoolNotLocked_skip(p) == TRUE

PoolNotLocked(p) == ~p.locked

\* PHASE 1 of withdraw_safe: the first failing check, or "Ok"
WithdrawChecks(balance, p, amount) ==
    IF ~HasBalance(balance, amount) THEN "InsufficientBalance"
    ELSE IF ~PoolHasFunds(p.total_available, amount) THEN "InsufficientPoolFunds"
    ELSE IF ~PoolNotLocked(p) THEN "PoolLocked"
    ELSE "Ok"

\* pool.locked = true
LockPool_skip(p) == p

LockPool(p) == [p EXCEPT !.locked = TRUE]

\* pool.locked = false
UnlockPool(p) == [p EXCEPT !.locked = FALSE]

\* the handler initialize_pool_safe, on the pool that `init` created
initialize_pool_safe_funded(p) ==
    [p EXCEPT !.created = TRUE, !.total_deposited = 0, !.total_available = 1,
              !.locked = FALSE]

initialize_pool_safe(p) ==
    [p EXCEPT !.created = TRUE, !.total_deposited = 0, !.total_available = 0,
              !.locked = FALSE]

\* initialize_pool_safe: InitializePoolSafe is validated (authority: Signer;
\* pool: init, which fails on a pool that exists), then the handler runs.
PoolInitialize ==
    \E authority \in Authorities :
        LET f == NewFrame("initialize_pool_safe", "none", 0, authority)
        IN /\ pool_stack = <<>> \/ InTransfer
           /\ UNCHANGED pool_calls
           /\ IF ~SignerCheck(f.is_signer) THEN Reject(f, "AccountNotSigner")
              ELSE IF pool.created THEN Reject(f, "AccountAlreadyInUse")
              ELSE /\ pool' = initialize_pool_safe(pool)
                   /\ pool_ret' = Returned(Entered(f), "Ok", f.pre)
                   /\ UNCHANGED <<user_deposit, pool_stack>>
           /\ UNCHANGED <<auth_vars, cpi_vars, arith_vars, validation_vars, vulnerable_vars>>

\* withdraw_safe is called: WithdrawSafe is validated (pool: Account<PoolSafe>,
\* token_program: Program<Token>; pool_signer is an unchecked AccountInfo), then
\* PHASE 1 runs.
PoolWithdrawCall ==
    \E user \in Deposits, amount \in WithdrawAmounts, pool_signer \in Authorities,
       token_program \in TokenPrograms :
        LET f == NewFrame("withdraw_safe", user, amount, pool_signer)
            checks == WithdrawChecks(user_deposit[user].balance, pool, amount)
        IN /\ CanCall
           /\ pool_calls' = pool_calls + 1
           /\ IF ~pool.created THEN Reject(f, "AccountNotInitialized")
              ELSE IF ~TokenProgramCheck(token_program) THEN Reject(f, "InvalidProgramId")
              ELSE IF checks # "Ok" THEN Reject(Entered(f), checks)
              ELSE /\ pool_stack' = Append(pool_stack,
                                        [EnteredWith(f, token_program) EXCEPT !.pc = "lock"])
                   /\ pool_ret' = NoPoolRet
                   /\ UNCHANGED <<pool, user_deposit>>
           /\ UNCHANGED <<auth_vars, cpi_vars, arith_vars, validation_vars, vulnerable_vars>>

\* The order of the statements of withdraw_safe after its checks: the lock,
\* the three debits (EFFECTS), the delegated transfer (INTERACTIONS), the
\* unlock.  WithdrawNext(pc) is the statement that follows pc; "transfer" is
\* the activation waiting for the transfer that "call" issued.
WithdrawNext_interaction_first(pc) ==
    CASE pc = "lock" -> "call"
      [] pc = "transfer" -> "debit_user"
      [] pc = "debit_user" -> "debit_deposited"
      [] pc = "debit_deposited" -> "debit_available"
      [] pc = "debit_available" -> "unlock"

WithdrawNext(pc) ==
    CASE pc = "lock" -> "debit_user"
      [] pc = "debit_user" -> "debit_deposited"
      [] pc = "debit_deposited" -> "debit_available"
      [] pc = "debit_available" -> "call"
      [] pc = "transfer" -> "unlock"

\* pool.locked = true;
PoolWithdrawLock ==
    /\ Running("withdraw_safe", "lock")
    /\ pool' = LockPool(pool)
    /\ pool_stack' = [pool_stack EXCEPT ![Len(pool_stack)].pc = WithdrawNext("lock"),
                                        ![Len(pool_stack)].set_lock = TRUE]
    /\ UNCHANGED <<user_deposit, pool_ret, pool_calls>>
    /\ UNCHANGED <<auth_vars, cpi_vars, arith_vars, validation_vars, vulnerable_vars>>

\* user.balance = user.balance.checked_sub(amount).ok_or(ArithmeticUnderflow)?;
PoolWithdrawDebitUser ==
    /\ Running("withdraw_safe", "debit_user")
    /\ LET v == checked_sub(user_deposit[Top.user].balance, Top.amount)
       IN IF v = -1
          THEN /\ Return("ArithmeticUnderflow", pool, user_deposit)
               /\ UNCHANGED <<pool, user_deposit>>
          ELSE /\ user_deposit' = [user_deposit EXCEPT ![Top.user].balance = v]
               /\ Goto(WithdrawNext("debit_user"))
               /\ UNCHANGED <<pool, pool_ret>>
    /\ UNCHANGED pool_calls
    /\ UNCHANGED <<auth_vars, cpi_vars, arith_vars, validation_vars, vulnerable_vars>>

\* pool.total_deposited = pool.total_deposited.checked_sub(amount).ok_or(..)?;
PoolWithdrawDebitDeposited ==
    /\ Running("withdraw_safe", "debit_deposited")
    /\ LET v == checked_sub(pool.total_deposited, Top.amount)
       IN IF v = -1
          THEN /\ Return("ArithmeticUnderflow", pool, user_deposit)
               /\ UNCHANGED <<pool, user_deposit>>
          ELSE /\ pool' = [pool EXCEPT !.total_deposited = v]
               /\ Goto(WithdrawNext("debit_deposited"))
               /\ UNCHANGED <<user_deposit, pool_ret>>
    /\ UNCHANGED pool_calls
    /\ UNCHANGED <<auth_vars, cpi_vars, arith_vars, validation_vars, vulnerable_vars>>

\* pool.total_available = pool.total_available.checked_sub(amount).ok_or(..)?;
PoolWithdrawDebitAvailable ==
    /\ Running("withdraw_safe", "debit_available")
    /\ LET v == checked_sub(pool.total_available, Top.amount)
       IN IF v = -1
          THEN /\ Return("ArithmeticUnderflow", pool, user_deposit)
               /\ UNCHANGED <<pool, user_deposit>>
          ELSE /\ pool' = [pool EXCEPT !.total_available = v]
               /\ Goto(WithdrawNext("debit_available"))
               /\ UNCHANGED <<user_deposit, pool_ret>>
    /\ UNCHANGED pool_calls
    /\ UNCHANGED <<auth_vars, cpi_vars, arith_vars, validation_vars, vulnerable_vars>>

\* token::transfer(CpiContext::new(..), amount) is issued: the activation waits
\* for the token program
PoolWithdrawTransfer ==
    /\ Running("withdraw_safe", "call")
    /\ pool_stack' = [pool_stack EXCEPT ![Len(pool_stack)].pc = "transfer",
                                        ![Len(pool_stack)].issued = @ + 1]
    /\ UNCHANGED <<pool, user_deposit, pool_ret, pool_calls>>
    /\ UNCHANGED <<auth_vars, cpi_vars, arith_vars, validation_vars, vulnerable_vars>>

\* the transfer returns; `?` returns its error
PoolWithdrawTransferReturns ==
    \E outcome \in CpiOutcomes :
        /\ Running("withdraw_safe", "transfer")
        /\ IF PropagateCpiResult(token_transfer(Top.is_signer, outcome)) = "Ok"
           THEN /\ Goto(WithdrawNext("transfer"))
                /\ UNCHANGED pool_ret
           ELSE Return(PropagateCpiResult(token_transfer(Top.is_signer, outcome)),
                       pool, user_deposit)
        /\ UNCHANGED <<pool, user_deposit, pool_calls>>
        /\ UNCHANGED <<auth_vars, cpi_vars, arith_vars, validation_vars, vulnerable_vars>>

\* pool.locked = false; Ok(())
PoolWithdrawUnlock ==
    /\ Running("withdraw_safe", "unlock")
    /\ pool' = UnlockPool(pool)
    /\ Return("Ok", UnlockPool(pool), user_deposit)
    /\ UNCHANGED <<user_deposit, pool_calls>>
    /\ UNCHANGED <<auth_vars, cpi_vars, arith_vars, validation_vars, vulnerable_vars>>

\* deposit_safe is called: DepositSafe is validated (pool: Account<PoolSafe>,
\* user_authority: Signer, token_program: Program<Token>), then CHECKS run.
PoolDepositCall ==
    \E user \in Deposits, amount \in DepositAmounts,
       user_token_amount \in TokenAmounts, user_authority \in Authorities,
       token_program \in TokenPrograms :
        LET f == NewFrame("deposit_safe", user, amount, user_authority)
        IN /\ CanCall
           /\ pool_calls' = pool_calls + 1
           /\ IF ~pool.created THEN Reject(f, "AccountNotInitialized")
              ELSE IF ~SignerCheck(f.is_signer) THEN Reject(f, "AccountNotSigner")
              ELSE IF ~TokenProgramCheck(token_program) THEN Reject(f, "InvalidProgramId")
              ELSE IF ~(amount > 0) THEN Reject(Entered(f), "InvalidAmount")
              ELSE IF ~(user_token_amount >= amount)
              THEN Reject(Entered(f), "InsufficientBalance")
              ELSE /\ pool_stack' = Append(pool_stack,
                                        [EnteredWith(f, token_program)
                                             EXCEPT !.pc = "credit_user"])
                   /\ pool_ret' = NoPoolRet
                   /\ UNCHANGED <<pool, user_deposit>>
           /\ UNCHANGED <<auth_vars, cpi_vars, arith_vars, validation_vars, vulnerable_vars>>

\* user.balance = user.balance.checked_add(amount).ok_or(ArithmeticOverflow)?;
PoolDepositCreditUser ==
    /\ Running("deposit_safe", "credit_user")
    /\ LET v == checked_add(user_deposit[Top.user].balance, Top.amount)
       IN IF v = -1
          THEN /\ Return("ArithmeticOverflow", pool, user_deposit)
               /\ UNCHANGED <<pool, user_deposit>>
          ELSE /\ user_deposit' = [user_deposit EXCEPT ![Top.user].balance = v]
               /\ Goto("credit_deposited")
               /\ UNCHANGED <<pool, pool_ret>>
    /\ UNCHANGED pool_calls
    /\ UNCHANGED <<auth_vars, cpi_vars, arith_vars, validation_vars, vulnerable_vars>>

\* pool.total_deposited = pool.total_deposited.checked_add(amount).ok_or(..)?;
PoolDepositCreditDeposited ==
    /\ Running("deposit_safe", "credit_deposited")
    /\ LET v == checked_add(pool.total_deposited, Top.amount)
       IN IF v = -1
          THEN /\ Return("ArithmeticOverflow", pool, user_deposit)
               /\ UNCHANGED <<pool, user_deposit>>
          ELSE /\ pool' = [pool EXCEPT !.total_deposited = v]
               /\ Goto("credit_available")
               /\ UNCHANGED <<user_deposit, pool_ret>>
    /\ UNCHANGED pool_calls
    /\ UNCHANGED <<auth_vars, cpi_vars, arith_vars, validation_vars, vulnerable_vars>>

\* pool.total_available = pool.total_available.checked_add(amount).ok_or(..)?;
PoolDepositCreditAvailable ==
    /\ Running("deposit_safe", "credit_available")
    /\ LET v == checked_add(pool.total_available, Top.amount)
       IN IF v = -1
          THEN /\ Return("ArithmeticOverflow", pool, user_deposit)
               /\ UNCHANGED <<pool, user_deposit>>
          ELSE /\ pool' = [pool EXCEPT !.total_available = v]
               /\ Goto("call")
               /\ UNCHANGED <<user_deposit, pool_ret>>
    /\ UNCHANGED pool_calls
    /\ UNCHANGED <<auth_vars, cpi_vars, arith_vars, validation_vars, vulnerable_vars>>

\* token::transfer(CpiContext::new(..), amount) is issued
PoolDepositTransfer ==
    /\ Running("deposit_safe", "call")
    /\ pool_stack' = [pool_stack EXCEPT ![Len(pool_stack)].pc = "transfer",
                                        ![Len(pool_stack)].issued = @ + 1]
    /\ UNCHANGED <<pool, user_deposit, pool_ret, pool_calls>>
    /\ UNCHANGED <<auth_vars, cpi_vars, arith_vars, validation_vars, vulnerable_vars>>

\* the transfer returns; `?` returns its error, otherwise Ok(())
PoolDepositTransferReturns ==
    \E outcome \in CpiOutcomes :
        /\ Running("deposit_safe", "transfer")
        /\ Return(PropagateCpiResult(token_transfer(Top.is_signer, outcome)),
                  pool, user_deposit)
        /\ UNCHANGED <<pool, user_deposit, pool_calls>>
        /\ UNCHANGED <<auth_vars, cpi_vars, arith_vars, validation_vars, vulnerable_vars>>

NextPool ==
    \/ PoolInitialize
    \/ PoolWithdrawCall
    \/ PoolWithdrawLock
    \/ PoolWithdrawDebitUser
    \/ PoolWithdrawDebitDeposited
    \/ PoolWithdrawDebitAvailable
    \/ PoolWithdrawTransfer
    \/ PoolWithdrawTransferReturns
    \/ PoolWithdrawUnlock
    \/ PoolDepositCall
    \/ PoolDepositCreditUser
    \/ PoolDepositCreditDeposited
    \/ PoolDepositCreditAvailable
    \/ PoolDepositTransfer
    \/ PoolDepositTransferReturns

-----------------------------------------------------------------------------
(* unsafe_arithmetic/src/secure.rs *)

\* instructions of the arithmetic program in one behaviour
MaxArithCalls == 3

\* let reward_rate = 100u64;
reward_rate == 100

\* require!(interest_rate <= 10000, ..)
MAX_INTEREST_RATE == 10000

\* amounts and rates of the arithmetic program
ArithAmounts == {0, 1, 3, 655, 656, U64_MAX}

ArithRates == {0, 50, 100, MAX_INTEREST_RATE, MAX_INTEREST_RATE + 1}

\* The program has no instruction that creates its Pool: the pool starts with
\* the totals its creator wrote.
ArithInitialDeposited == {0, U64_MAX}

ArithInitialAvailable == {0, 3}

InitArith(deposited, available) ==
    /\ arith_pool \in [total_deposited : deposited, total_available : available,
                       total_rewards : {0}, total_minted : {0}]
    /\ arith_call = [op |-> "none", amount |-> 0, rate |-> 0, result |-> "none",
                     pre |-> arith_pool, calls |-> 0]

\* u64::checked_div
checked_div(a, b) == IF b # 0 THEN a \div b ELSE -1

\* the handler deposit_safe: [result, pool]; `?` returns at the first step
\* that fails, after the assignments made before it
arith_deposit_safe(account, amount) ==
    LET deposited == checked_add(account.total_deposited, amount)
        a1 == [account EXCEPT !.total_deposited = deposited]
        rewards == checked_mul(amount, reward_rate)
        total == checked_add(a1.total_rewards, rewards)
    IN IF deposited = -1 THEN [result |-> "ArithmeticOverflow", pool |-> account]
       ELSE IF rewards = -1 THEN [result |-> "ArithmeticOverflow", pool |-> a1]
       ELSE IF total = -1 THEN [result |-> "ArithmeticOverflow", pool |-> a1]
       ELSE [result |-> "Ok", pool |-> [a1 EXCEPT !.total_rewards = total]]

\* the handler withdraw_safe: [result, pool]
arith_withdraw_safe_debits_deposited(account, amount) ==
    LET available == checked_sub(account.total_available, amount)
    IN IF available = -1 THEN [result |-> "ArithmeticUnderflow", pool |-> account]
       ELSE [result |-> "Ok",
             pool |-> [account EXCEPT !.total_available = available,
                                      !.total_deposited = wrapping_sub(@, amount)]]

arith_withdraw_safe(account, amount) ==
    LET available == checked_sub(account.total_available, amount)
    IN IF available = -1 THEN [result |-> "ArithmeticUnderflow", pool |-> account]
       ELSE [result |-> "Ok", pool |-> [account EXCEPT !.total_available = available]]

\* require!(interest_rate <= 10000, InvalidInterestRate)
RateIsValid_skip(interest_rate) == TRUE

RateIsValid(interest_rate) == interest_rate <= MAX_INTEREST_RATE

\* the handler mint_interest_safe: [result, pool]
arith_mint_interest_safe(account, base_amount, interest_rate) ==
    IF ~RateIsValid(interest_rate)
    THEN [result |-> "InvalidInterestRate", pool |-> account]
    ELSE LET product == checked_mul(base_amount, interest_rate)
             interest == IF product = -1 THEN -1 ELSE checked_div(product, 100)
             minted == IF interest = -1 THEN -1
                       ELSE checked_add(account.total_minted, interest)
         IN IF product = -1 \/ interest = -1 \/ minted = -1
            THEN [result |-> "ArithmeticOverflow", pool |-> account]
            ELSE [result |-> "Ok", pool |-> [account EXCEPT !.total_minted = minted]]

ArithReturn(op, amount, rate, r) ==
    /\ arith_call.calls < MaxArithCalls
    /\ arith_pool' = r.pool
    /\ arith_call' = [op |-> op, amount |-> amount, rate |-> rate,
                      result |-> r.result, pre |-> arith_pool,
                      calls |-> arith_call.calls + 1]

ArithDeposit ==
    \E amount \in ArithAmounts :
        /\ ArithReturn("deposit_safe", amount, 0,
                       arith_deposit_safe(arith_pool, amount))
        /\ UNCHANGED <<auth_vars, cpi_vars, pool_vars, validation_vars, vulnerable_vars>>

ArithWithdraw ==
    \E amount \in ArithAmounts :
        /\ ArithReturn("withdraw_safe", amount, 0,
                       arith_withdraw_safe(arith_pool, amount))
        /\ UNCHANGED <<auth_vars, cpi_vars, pool_vars, validation_vars, vulnerable_vars>>

ArithMintInterest ==
    \E base_amount \in ArithAmounts, interest_rate \in ArithRates :
        /\ ArithReturn("mint_interest_safe", base_amount, interest_rate,
                       arith_mint_interest_safe(arith_pool, base_amount, interest_rate))
        /\ UNCHANGED <<auth_vars, cpi_vars, pool_vars, validation_vars, vulnerable_vars>>

NextArith == ArithDeposit \/ ArithWithdraw \/ ArithMintInterest

-----------------------------------------------------------------------------
(* missing_account_validation/src/secure.rs *)

\* the mints a request can present, as `mint` and as the mint recorded in a
\* token account
Mints == {"mint_a", "mint_b"}

\* amounts of transfer_tokens_safe
ValidationAmounts == {0, 1, U64_MAX}

NoValidationCall ==
    [op |-> "none", mint |-> NoKey, from_mint |-> NoKey, to_mint |-> NoKey,
     is_signer |-> FALSE, token_program |-> NoKey, amount |-> 0,
     outcome |-> "Ok", entered |-> FALSE, issued |-> <<>>, result |-> "none"]

InitValidation == validation_call = NoValidationCall

\* #[account(mut, associated_token_account::mint = mint)]: the token account
\* must belong to the mint that the request presents
TokenMintConstraint_skip(token_mint, mint) == TRUE

TokenMintConstraint(token_mint, mint) == token_mint = mint

\* the handler transfer_tokens_safe: [result, issued]
transfer_tokens_safe(token_program, amount, outcome) ==
    [result |-> PropagateCpiResult(token_transfer(TRUE, outcome)),
     issued |-> <<[program |-> token_program, kind |-> "transfer",
                   amount |-> amount, signer |-> "authority",
                   returned |-> token_transfer(TRUE, outcome)]>>]

\* The instruction transfer_tokens_safe: TransferSafe is validated (the
\* accounts are loaded in the order of the fields, authority: Signer,
\* token_program: Program<Token>; then the constraints of token_from and of
\* token_to), then the handler runs.
TransferSafe(mint, from_mint, to_mint, is_signer, token_program, amount, outcome) ==
    LET ok == /\ SignerCheck(is_signer)
              /\ TokenProgramCheck(token_program)
              /\ TokenMintConstraint(from_mint, mint)
              /\ TokenMintConstraint(to_mint, mint)
        r == IF ~SignerCheck(is_signer)
             THEN [result |-> "AccountNotSigner", issued |-> <<>>]
             ELSE IF ~TokenProgramCheck(token_program)
             THEN [result |-> "InvalidProgramId", issued |-> <<>>]
             ELSE IF ~TokenMintConstraint(from_mint, mint)
             THEN [result |-> "ConstraintTokenMint", issued |-> <<>>]
             ELSE IF ~TokenMintConstraint(to_mint, mint)
             THEN [result |-> "ConstraintTokenMint", issued |-> <<>>]
             ELSE transfer_tokens_safe(token_program, amount, outcome)
    IN validation_call' =
           [op |-> "transfer_tokens_safe", mint |-> mint, from_mint |-> from_mint,
            to_mint |-> to_mint, is_signer |-> is_signer,
            token_program |-> token_program, amount |-> amount,
            outcome |-> outcome, entered |-> ok, issued |-> r.issued,
            result |-> r.result]

ValidationTransfer ==
    \E mint \in Mints, from_mint \in Mints, to_mint \in Mints,
       is_signer \in BOOLEAN, token_program \in ProgramKeys,
       amount \in ValidationAmounts, outcome \in CpiOutcomes :
        /\ TransferSafe(mint, from_mint, to_mint, is_signer, token_program,
                        amount, outcome)
        /\ UNCHANGED <<auth_vars, cpi_vars, pool_vars, arith_vars, vulnerable_vars>>

NextValidation == ValidationTransfer

-----------------------------------------------------------------------------
(* incorrect_authority_check/src/vulnerable.rs *)

\* The program has no instruction that creates a UserAccount (InitializeUnsafe
\* takes user_account as `mut`, not as `init`): the account exists beforehand,
\* with the zeroed fields of a new account.
NoUnsafeAuthCall ==
    [op |-> "none", authority |-> NoKey, is_signer |-> FALSE,
     system_program |-> NoKey, amount |-> 0, result |-> "none",
     pre |-> [created |-> TRUE, owner |-> NoKey, balance |-> 0]]

InitUnsafeAuth ==
    /\ unsafe_account = [created |-> TRUE, owner |-> NoKey, balance |-> 0]
    /\ unsafe_auth_call = NoUnsafeAuthCall

\* system_program::ID
SYSTEM_PROGRAM_ID == "11111111111111111111111111111111"

\* Program<'info, System>: the account's key must be the system program's id
SystemProgramCheck(system_program) == system_program = SYSTEM_PROGRAM_ID

\* `pub authority: AccountInfo<'info>` of InitializeUnsafe: no signature is asked for
UncheckedAuthority_signer(is_signer) == is_signer

UncheckedAuthority(is_signer) == TRUE

\* the handler initialize_unsafe: [result, account]
auth_initialize_unsafe(account, authority, initial_amount) ==
    [result |-> "Ok",
     account |-> [account EXCEPT !.owner = authority, !.balance = initial_amount]]

\* the handler withdraw_unsafe: [result, account]; `account.balance -= amount`
\* runs only after the require!, so it cannot underflow
auth_withdraw_unsafe_owner_checked(account, authority, amount) ==
    IF ~AuthorityIsOwner(authority, account.owner)
    THEN [result |-> "Unauthorized", account |-> account]
    ELSE IF ~SufficientFunds(account.balance, amount)
    THEN [result |-> "InsufficientFunds", account |-> account]
    ELSE [result |-> "Ok",
          account |-> [account EXCEPT !.balance = account.balance - amount]]

auth_withdraw_unsafe(account, authority, amount) ==
    IF ~SufficientFunds(account.balance, amount)
    THEN [result |-> "InsufficientFunds", account |-> account]
    ELSE [result |-> "Ok",
          account |-> [account EXCEPT !.balance = account.balance - amount]]

UnsafeAuthReturn(op, authority, is_signer, system_program, amount, r) ==
    /\ unsafe_account' = r.account
    /\ unsafe_auth_call' = [op |-> op, authority |-> authority, is_signer |-> is_signer,
                            system_program |-> system_program, amount |-> amount,
                            result |-> r.result, pre |-> unsafe_account]

\* The instruction initialize_unsafe: InitializeUnsafe is validated
\* (user_account, authority, system_program), then the handler runs.
InitializeUnsafe(authority, is_signer, system_program, initial_amount) ==
    UnsafeAuthReturn("initialize_unsafe", authority, is_signer, system_program,
        initial_amount,
        IF ~UncheckedAuthority(is_signer)
        THEN [result |-> "AccountNotSigner", account |-> unsafe_account]
        ELSE IF ~SystemProgramCheck(system_program)
        THEN [result |-> "InvalidProgramId", account |-> unsafe_account]
        ELSE auth_initialize_unsafe(unsafe_account, authority, initial_amount))

\* The instruction withdraw_unsafe: WithdrawUnsafe is validated
\* (authority: #[account(signer)]), then the handler runs.
WithdrawUnsafe(authority, is_signer, amount) ==
    UnsafeAuthReturn("withdraw_unsafe", authority, is_signer, NoKey, amount,
        IF ~SignerCheck(is_signer)
        THEN [result |-> "AccountNotSigner", account |-> unsafe_account]
        ELSE auth_withdraw_unsafe(unsafe_account, authority, amount))

UnsafeAuthInitialize ==
    \E authority \in Keys, is_signer \in BOOLEAN, system_program \in ProgramKeys,
       initial_amount \in AuthInitialAmounts :
        /\ InitializeUnsafe(authority, is_signer, system_program, initial_amount)
        /\ UNCHANGED <<secure_vars, unsafe_arith_vars, unsafe_cpi_vars, vuln_pool_vars>>

UnsafeAuthWithdraw ==
    \E authority \in Keys, is_signer \in BOOLEAN, amount \in AuthAmounts :
        /\ WithdrawUnsafe(authority, is_signer, amount)
        /\ UNCHANGED <<secure_vars, unsafe_arith_vars, unsafe_cpi_vars, vuln_pool_vars>>

NextUnsafeAuth == UnsafeAuthInitialize \/ UnsafeAuthWithdraw

-----------------------------------------------------------------------------
(* unsafe_arithmetic/src/vulnerable.rs *)

\* The program has no instruction that creates its Pool: the pool exists
\* beforehand, with the zeroed fields of a new account.
InitUnsafeArith ==
    /\ unsafe_pool = [total_deposited |-> 0, total_available |-> 0,
                      total_rewards |-> 0, total_minted |-> 0]
    /\ unsafe_arith_call = [op |-> "none", amount |-> 0, rate |-> 0,
                            result |-> "none", pre |-> unsafe_pool, calls |-> 0]

\* u64::wrapping_add
wrapping_add_saturating(a, b) == IF a + b <= U64_MAX THEN a + b ELSE U64_MAX

wrapping_add(a, b) == (a + b) % U64_MOD

\* u64::wrapping_mul
wrapping_mul(a, b) == (a * b) % U64_MOD

\* the handler deposit_unsafe: [result, pool]
arith_deposit_unsafe(p, amount) ==
    LET rewards == wrapping_mul(amount, reward_rate)
    IN [result |-> "Ok",
        pool |-> [p EXCEPT !.total_deposited = wrapping_add(p.total_deposited, amount),
                           !.total_rewards = wrapping_add(p.total_rewards, rewards)]]

\* the handler withdraw_unsafe: [result, pool]
arith_withdraw_unsafe(p, amount) ==
    [result |-> "Ok",
     pool |-> [p EXCEPT !.total_available = wrapping_sub(p.total_available, amount)]]

\* the handler mint_interest_unsafe: [result, pool]
arith_mint_interest_unsafe(p, base_amount, interest_rate) ==
    LET interest == wrapping_mul(base_amount, interest_rate) \div 100
    IN [result |-> "Ok",
        pool |-> [p EXCEPT !.total_minted = wrapping_add(p.total_minted, interest)]]

UnsafeArithReturn(op, amount, rate, r) ==
    /\ unsafe_arith_call.calls < MaxArithCalls
    /\ unsafe_pool' = r.pool
    /\ unsafe_arith_call' = [op |-> op, amount |-> amount, rate |-> rate,
                             result |-> r.result, pre |-> unsafe_pool,
                             calls |-> unsafe_arith_call.calls + 1]

UnsafeArithDeposit ==
    \E amount \in ArithAmounts :
        /\ UnsafeArithReturn("deposit_unsafe", amount, 0,
                             arith_deposit_unsafe(unsafe_pool, amount))
        /\ UNCHANGED <<secure_vars, unsafe_auth_vars, unsafe_cpi_vars, vuln_pool_vars>>

UnsafeArithWithdraw ==
    \E amount \in ArithAmounts :
        /\ UnsafeArithReturn("withdraw_unsafe", amount, 0,
                             arith_withdraw_unsafe(unsafe_pool, amount))
        /\ UNCHANGED <<secure_vars, unsafe_auth_vars, unsafe_cpi_vars, vuln_pool_vars>>

UnsafeArithMintInterest ==
    \E base_amount \in ArithAmounts, interest_rate \in ArithRates :
        /\ UnsafeArithReturn("mint_interest_unsafe", base_amount, interest_rate,
               arith_mint_interest_unsafe(unsafe_pool, base_amount, interest_rate))
        /\ UNCHANGED <<secure_vars, unsafe_auth_vars, unsafe_cpi_vars, vuln_pool_vars>>

NextUnsafeArith == UnsafeArithDeposit \/ UnsafeArithWithdraw \/ UnsafeArithMintInterest

-----------------------------------------------------------------------------
(* cpi_misuse/src/vulnerable.rs *)

\* token accounts a request can present as from_token and to_token
TokenAccounts == {"token_a", "token_b"}

\* amounts of unsafe_token_transfer
UnsafeCpiAmounts == {0, 1, U64_MAX}

NoUnsafeCpiCall ==
    [op |-> "none", entered |-> FALSE, accounts |-> <<>>, program |-> NoKey,
     amount |-> 0, data |-> <<>>, outcome |-> "Ok", issued |-> <<>>,
     result |-> "none"]

InitUnsafeCpi == unsafe_cpi_call = NoUnsafeCpiCall

\* What the called program returns.  The token program rejects an
\* instruction without data; any other program returns what it decides.
invoke(program, data, outcome) ==
    IF program = SPL_TOKEN_ID /\ data = <<>> THEN "Err" ELSE outcome

\* `let _result = invoke_signed(..); .. Ok(())`
IgnoreCpiResult_propagate(cpi_result) == IF cpi_result = "Ok" THEN "Ok" ELSE "CpiFailed"

IgnoreCpiResult(cpi_result) == "Ok"

\* the handler unsafe_token_transfer: [result, issued]; the instruction it
\* builds carries no data (`data: vec![]`), whatever the amount
unsafe_token_transfer(from_token, to_token, token_program, amount, outcome) ==
    [result |-> IgnoreCpiResult(invoke(token_program, <<>>, outcome)),
     issued |-> <<[program |-> token_program, kind |-> "invoke_signed",
                   accounts |-> <<from_token, to_token, "authority">>,
                   data |-> <<>>, signer |-> "authority",
                   returned |-> invoke(token_program, <<>>, outcome)]>>]

\* the handler unsafe_delegate_call: [result, issued]
unsafe_delegate_call(target_program, instruction_data, outcome) ==
    [result |-> PropagateCpiResult(invoke(target_program, instruction_data, outcome)),
     issued |-> <<[program |-> target_program, kind |-> "invoke",
                   accounts |-> <<"user_data", "owner">>,
                   data |-> instruction_data, signer |-> "none",
                   returned |-> invoke(target_program, instruction_data, outcome)]>>]

\* The instruction unsafe_token_transfer: TransferUnsafeCpi is validated
\* (authority: Signer; token_program is an unchecked AccountInfo), then the
\* handler runs.
TransferUnsafeCpi(from_token, to_token, authority_signed, token_program, amount, outcome) ==
    LET ok == SignerCheck(authority_signed)
        r == IF ~ok
             THEN [result |-> "AccountNotSigner", issued |-> <<>>]
             ELSE unsafe_token_transfer(from_token, to_token, token_program,
                                        amount, outcome)
    IN unsafe_cpi_call' =
           [op |-> "unsafe_token_transfer", entered |-> ok,
            accounts |-> <<from_token, to_token>>, program |-> token_program,
            amount |-> amount, data |-> <<>>, outcome |-> outcome,
            issued |-> r.issued, result |-> r.result]

\* The instruction unsafe_delegate_call: DelegateUnsafe validates nothing.
DelegateUnsafe(target_program, instruction_data, outcome) ==
    LET r == unsafe_delegate_call(target_program, instruction_data, outcome)
    IN unsafe_cpi_call' =
           [op |-> "unsafe_delegate_call", entered |-> TRUE,
            accounts |-> <<"user_data", "owner">>, program |-> target_program,
            amount |-> 0, data |-> instruction_data, outcome |-> outcome,
            issued |-> r.issued, result |-> r.result]

UnsafeCpiTokenTransfer ==
    \E from_token \in TokenAccounts, to_token \in TokenAccounts,
       authority_signed \in BOOLEAN, token_program \in ProgramKeys,
       amount \in UnsafeCpiAmounts, outcome \in CpiOutcomes :
        /\ TransferUnsafeCpi(from_token, to_token, authority_signed, token_program,
                             amount, outcome)
        /\ UNCHANGED <<secure_vars, unsafe_auth_vars, unsafe_arith_vars, vuln_pool_vars>>

UnsafeCpiDelegateCall ==
    \E target_program \in ProgramKeys, instruction_data \in InstructionData,
       outcome \in CpiOutcomes :
        /\ DelegateUnsafe(target_program, instruction_data, outcome)
        /\ UNCHANGED <<secure_vars, unsafe_auth_vars, unsafe_arith_vars, vuln_pool_vars>>

NextUnsafeCpi == UnsafeCpiTokenTransfer \/ UnsafeCpiDelegateCall

-----------------------------------------------------------------------------
(* reentrancy_risk/src/vulnerable.rs *)

\* withdraw_vulnerable instructions begun in one behaviour
MaxVulnCalls == 3

\* activations nested in one another (an instruction plus its re-entrant calls)
MaxVulnDepth == 3

\* amounts of withdraw_vulnerable
VulnAmounts == {0, 1, 2}

\* The program has no instruction that creates a UserDeposit or that
\* deposits: the user's record, and a pool that holds funds, start with what
\* their creator wrote.
VulnInitialBalances == {1, 2}

VulnInitialDeposited == {0, 2}

NoVulnRet ==
    [op |-> "none", amount |-> 0, is_signer |-> FALSE, result |-> "none",
     debits |-> 0, issued |-> 0, depth |-> 0,
     pre |-> [balance |-> 0, total_deposited |-> 0]]

\* a pool with deposited > 0 exists already; otherwise
\* initialize_pool_vulnerable creates it
InitVulnPool(balances, deposited) ==
    /\ vuln_pool \in {[created |-> d > 0, total_deposited |-> d, total_available |-> d] :
                        d \in deposited}
    /\ vuln_user \in [owner : {"alice"}, balance : balances]
    /\ vuln_stack = <<>>
    /\ vuln_ret = NoVulnRet
    /\ vuln_run = [calls |-> 0, transferred |-> 0]

VulnTop == vuln_stack[Len(vuln_stack)]

\* the innermost activation is blocked in its delegated transfer
VulnInTransfer == vuln_stack # <<>> /\ VulnTop.pc = "transfer"

\* An instruction can begin as a transaction's instruction (no activation) or
\* from the callee of a delegated transfer that is in flight.
VulnCanCall ==
    /\ Len(vuln_stack) < MaxVulnDepth
    /\ vuln_stack = <<>> \/ VulnInTransfer

\* the innermost activation runs its statement at pc
VulnRunning(pc) == vuln_stack # <<>> /\ VulnTop.pc = pc

VulnFrame(amount, is_signer) ==
    [op |-> "withdraw_vulnerable", amount |-> amount, is_signer |-> is_signer,
     pc |-> "start", debits |-> 0, issued |-> 0, depth |-> Len(vuln_stack) + 1,
     pre |-> [balance |-> vuln_user.balance,
              total_deposited |-> vuln_pool.total_deposited]]

VulnReturned(f, result) ==
    [op |-> f.op, amount |-> f.amount, is_signer |-> f.is_signer, result |-> result,
     debits |-> f.debits, issued |-> f.issued, depth |-> f.depth, pre |-> f.pre]

\* an instruction is rejected by the validation of its accounts or fails in
\* its check: nothing is pushed
VulnReject(f, result) ==
    /\ vuln_ret' = VulnReturned(f, result)
    /\ UNCHANGED <<vuln_pool, vuln_user, vuln_stack>>

\* the innermost activation f (as it is when it returns) returns result
VulnReturn(f, result) ==
    /\ vuln_stack' = SubSeq(vuln_stack, 1, Len(vuln_stack) - 1)
    /\ vuln_ret' = VulnReturned(f, result)

\* the innermost activation has run one more debit and moves to pc
VulnDebited(pc) ==
    /\ vuln_stack' = [vuln_stack EXCEPT ![Len(vuln_stack)].pc = pc,
                                        ![Len(vuln_stack)].debits = @ + 1]
    /\ UNCHANGED vuln_ret

\* The order of the statements of withdraw_vulnerable after its check: the
\* delegated transfer (INTERACTION), then the two debits (EFFECTS).
\* VulnerableNext(pc) is the statement that follows pc; "transfer" is the
\* activation waiting for the transfer that "call" issued.
VulnerableNext_effects_first(pc) ==
    CASE pc = "start" -> "debit_user"
      [] pc = "debit_user" -> "debit_deposited"
      [] pc = "debit_deposited" -> "call"
      [] pc = "transfer" -> "return"

VulnerableNext(pc) ==
    CASE pc = "start" -> "call"
      [] pc = "transfer" -> "debit_user"
      [] pc = "debit_user" -> "debit_deposited"
      [] pc = "debit_deposited" -> "return"

\* initialize_pool_vulnerable: InitializePoolVulnerable is validated (pool:
\* init, authority: Signer), then the handler zeroes the totals.
VulnInitializePool ==
    \E authority_signed \in BOOLEAN :
        LET f == [VulnFrame(0, authority_signed) EXCEPT !.op = "initialize_pool_vulnerable"]
        IN /\ VulnCanCall
           /\ IF vuln_pool.created
              THEN VulnReject(f, "AccountAlreadyInUse")
              ELSE IF ~SignerCheck(authority_signed)
              THEN VulnReject(f, "AccountNotSigner")
              ELSE /\ vuln_pool' = [created |-> TRUE, total_deposited |-> 0,
                                    total_available |-> 0]
                   /\ vuln_ret' = VulnReturned(f, "Ok")
                   /\ UNCHANGED <<vuln_user, vuln_stack>>
           /\ UNCHANGED vuln_run
           /\ UNCHANGED <<secure_vars, unsafe_auth_vars, unsafe_arith_vars, unsafe_cpi_vars>>

\* withdraw_vulnerable is called: WithdrawVulnerable is validated (pool:
\* Account<Pool>, token_program: Program<Token>; pool_signer is an unchecked
\* AccountInfo), then the check of the balance runs.
VulnWithdrawCall ==
    \E amount \in VulnAmounts, pool_signer_signed \in BOOLEAN,
       token_program \in TokenPrograms :
        LET f == VulnFrame(amount, pool_signer_signed)
        IN /\ VulnCanCall
           /\ vuln_run.calls < MaxVulnCalls
           /\ vuln_run' = [calls |-> vuln_run.calls + 1,
                           transferred |-> IF vuln_stack = <<>> THEN 0
                                           ELSE vuln_run.transferred]
           /\ IF ~vuln_pool.created THEN VulnReject(f, "AccountNotInitialized")
              ELSE IF ~TokenProgramCheck(token_program)
              THEN VulnReject(f, "InvalidProgramId")
              ELSE IF ~HasBalance(vuln_user.balance, amount)
              THEN VulnReject(f, "InsufficientBalance")
              ELSE /\ vuln_stack' = Append(vuln_stack,
                                           [f EXCEPT !.pc = VulnerableNext("start")])
                   /\ vuln_ret' = NoVulnRet
                   /\ UNCHANGED <<vuln_pool, vuln_user>>
           /\ UNCHANGED <<secure_vars, unsafe_auth_vars, unsafe_arith_vars, unsafe_cpi_vars>>

\* token::transfer(CpiContext::new(..), amount) is issued
VulnWithdrawTransfer ==
    /\ VulnRunning("call")
    /\ vuln_stack' = [vuln_stack EXCEPT ![Len(vuln_stack)].pc = "transfer",
                                        ![Len(vuln_stack)].issued = @ + 1]
    /\ UNCHANGED <<vuln_pool, vuln_user, vuln_ret, vuln_run>>
    /\ UNCHANGED <<secure_vars, unsafe_auth_vars, unsafe_arith_vars, unsafe_cpi_vars>>

\* the transfer returns, having moved amount when it succeeded; `?` returns
\* its error
VulnWithdrawTransferReturns ==
    \E outcome \in CpiOutcomes :
        LET returned == token_transfer(VulnTop.is_signer, outcome)
        IN /\ VulnRunning("transfer")
           /\ IF PropagateCpiResult(returned) = "Ok"
              THEN /\ vuln_stack' = [vuln_stack EXCEPT
                                        ![Len(vuln_stack)].pc = VulnerableNext("transfer")]
                   /\ vuln_run' = [vuln_run EXCEPT !.transferred = @ + VulnTop.amount]
                   /\ UNCHANGED vuln_ret
              ELSE /\ VulnReturn(VulnTop, PropagateCpiResult(returned))
                   /\ UNCHANGED vuln_run
           /\ UNCHANGED <<vuln_pool, vuln_user>>
           /\ UNCHANGED <<secure_vars, unsafe_auth_vars, unsafe_arith_vars, unsafe_cpi_vars>>

\* user.balance = user.balance.checked_sub(amount).ok_or(ArithmeticUnderflow)?;
VulnWithdrawDebitUser ==
    /\ VulnRunning("debit_user")
    /\ IF checked_sub(vuln_user.balance, VulnTop.amount) = -1
       THEN /\ VulnReturn(VulnTop, "ArithmeticUnderflow")
            /\ UNCHANGED vuln_user
       ELSE /\ vuln_user' = [vuln_user EXCEPT
                                !.balance = checked_sub(vuln_user.balance, VulnTop.amount)]
            /\ VulnDebited(VulnerableNext("debit_user"))
    /\ UNCHANGED <<vuln_pool, vuln_run>>
    /\ UNCHANGED <<secure_vars, unsafe_auth_vars, unsafe_arith_vars, unsafe_cpi_vars>>

\* pool.total_deposited =
\*     pool.total_deposited.checked_sub(amount).ok_or(ArithmeticUnderflow)?;
VulnWithdrawDebitDeposited ==
    /\ VulnRunning("debit_deposited")
    /\ IF checked_sub(vuln_pool.total_deposited, VulnTop.amount) = -1
       THEN /\ VulnReturn(VulnTop, "ArithmeticUnderflow")
            /\ UNCHANGED vuln_pool
       ELSE /\ vuln_pool' = [vuln_pool EXCEPT
                                !.total_deposited =
                                    checked_sub(vuln_pool.total_deposited, VulnTop.amount)]
            /\ VulnDebited(VulnerableNext("debit_deposited"))
    /\ UNCHANGED <<vuln_user, vuln_run>>
    /\ UNCHANGED <<secure_vars, unsafe_auth_vars, unsafe_arith_vars, unsafe_cpi_vars>>

\* Ok(())
VulnWithdrawOk ==
    /\ VulnRunning("return")
    /\ VulnReturn(VulnTop, "Ok")
    /\ UNCHANGED <<vuln_pool, vuln_user, vuln_run>>
    /\ UNCHANGED <<secure_vars, unsafe_auth_vars, unsafe_arith_vars, unsafe_cpi_vars>>

NextVulnPool ==
    \/ VulnInitializePool
    \/ VulnWithdrawCall
    \/ VulnWithdrawTransfer
    \/ VulnWithdrawTransferReturns
    \/ VulnWithdrawDebitUser
    \/ VulnWithdrawDebitDeposited
    \/ VulnWithdrawOk

-----------------------------------------------------------------------------
(* Specifications *)

\* the vulnerable programs before their first instruction
InitVulnerable ==
    InitUnsafeAuth /\ InitUnsafeArith /\ InitUnsafeCpi /\ InitVulnPool({0}, {0})

Init ==
    /\ InitAuth /\ InitCpi /\ InitPool /\ InitArith({0}, {0}) /\ InitValidation
    /\ InitVulnerable

SpecAuth == Init /\ [][NextAuth]_vars

SpecCpi == Init /\ [][NextCpi]_vars

SpecPool == Init /\ [][NextPool]_vars

\* The programs that issue token transfers.  cpi_misuse and reentrancy_risk
\* share no account, so a behaviour runs the instructions of one of them.
NextTransfers == (InitPool /\ NextCpi) \/ (InitCpi /\ NextPool)

SpecTransfers == Init /\ [][NextTransfers]_vars

\* the arithmetic program starts from a pool that may already hold funds
InitFunded ==
    /\ InitAuth /\ InitCpi /\ InitPool
    /\ InitArith(ArithInitialDeposited, ArithInitialAvailable)
    /\ InitValidation
    /\ InitVulnerable

SpecArith == InitFunded /\ [][NextArith]_vars

\* the arithmetic program on a Pool whose totals are all zero
SpecArithFromZero == Init /\ [][NextArith]_vars

SpecValidation == Init /\ [][NextValidation]_vars

\* The instructions whose handlers run more than one check before their
\* effect: withdraw_safe of the authority program (with initialize_safe, which
\* creates its account) and safe_delegate_call.  The two programs share no
\* account, so the order between their instructions changes no result: a
\* behaviour runs the instructions of the authority program first.
NextChecks == (InitCpi /\ NextAuth) \/ CpiDelegateCall

SpecChecks == Init /\ [][NextChecks]_vars

SpecUnsafeAuth == Init /\ [][NextUnsafeAuth]_vars

SpecUnsafeArith == Init /\ [][NextUnsafeArith]_vars

SpecUnsafeCpi == Init /\ [][NextUnsafeCpi]_vars

\* the vulnerable reentrancy program starts from a user with a balance and
\* from a pool that may already hold funds
InitVulnFunded ==
    /\ InitAuth /\ InitCpi /\ InitPool /\ InitArith({0}, {0}) /\ InitValidation
    /\ InitUnsafeAuth /\ InitUnsafeArith /\ InitUnsafeCpi
    /\ InitVulnPool(VulnInitialBalances, VulnInitialDeposited)

SpecVulnPool == InitVulnFunded /\ [][NextVulnPool]_vars

-----------------------------------------------------------------------------
(* Claims about the authority program, checked under SpecAuth *)

\* the errors of the authority program that reject the caller
AuthorizationErrors == {"AccountNotSigner", "Unauthorized"}

\* the last instruction was withdraw_safe on an existing account
AuthWithdrawCalled == auth_call.op = "withdraw_safe" /\ auth_call.pre.created

\* C1: withdraw_safe succeeds only for a caller that has signed and whose key is
\* the account's owner; for a caller that has not signed (AccountNotSigner) or a
\* signer with another key (Unauthorized) it returns an authorization error and
\* the account's balance and owner are as before, for every amount.
C1_WithdrawOnlyByOwner ==
    AuthWithdrawCalled =>
        /\ auth_call.result = "Ok" =>
               auth_call.is_signer /\ auth_call.authority = auth_call.pre.owner
        /\ ~auth_call.is_signer =>
               /\ auth_call.result = "AccountNotSigner"
               /\ user_account = auth_call.pre
        /\ (auth_call.is_signer /\ auth_call.authority # auth_call.pre.owner) =>
               /\ auth_call.result = "Unauthorized"
               /\ user_account = auth_call.pre
        /\ auth_call.result \in AuthorizationErrors <=>
               (~auth_call.is_signer \/ auth_call.authority # auth_call.pre.owner)

\* C1 witness: a signer that is not the owner asked for an amount the balance
\* covers and was rejected
C1_Witness ==
    /\ AuthWithdrawCalled
    /\ auth_call.is_signer
    /\ auth_call.authority # auth_call.pre.owner
    /\ auth_call.amount > 0
    /\ auth_call.amount <= auth_call.pre.balance
    /\ auth_call.result = "Unauthorized"

\* the last instruction was withdraw_safe by the owner, who signed
AuthOwnerWithdrawCalled ==
    /\ AuthWithdrawCalled
    /\ auth_call.is_signer
    /\ auth_call.authority = auth_call.pre.owner

\* C2: a withdraw_safe by the owner with amount <= balance succeeds and leaves
\* balance - amount; with amount > balance it fails with InsufficientFunds (the
\* spec's Underflow) and leaves the balance; and the balance always is the
\* initial balance minus the sum of the amounts of the successful withdrawals.
C2_WithdrawSequenceBalance ==
    /\ (AuthOwnerWithdrawCalled /\ auth_call.amount <= auth_call.pre.balance) =>
           /\ auth_call.result = "Ok"
           /\ user_account.balance = auth_call.pre.balance - auth_call.amount
    /\ (AuthOwnerWithdrawCalled /\ auth_call.amount > auth_call.pre.balance) =>
           /\ auth_call.result = "InsufficientFunds"
           /\ user_account.balance = auth_call.pre.balance
    /\ user_account.created =>
           user_account.balance = auth_hist.initial - auth_hist.withdrawn

\* C2 witness: the end of the scenario 100 -> 40 -> the owner asks for 50
C2_Witness ==
    /\ AuthOwnerWithdrawCalled
    /\ auth_hist.initial = 100
    /\ auth_hist.withdrawn = 60
    /\ auth_call.amount = 50
    /\ auth_call.result = "InsufficientFunds"
    /\ user_account.balance = 40

-----------------------------------------------------------------------------
(* Claims about the reentrancy program, checked under SpecPool *)

\* the pcs of withdraw_safe after `user.balance = ..checked_sub(amount)` and
\* those of deposit_safe after `user.balance = ..checked_add(amount)`
AfterUserDebit == {"debit_deposited", "debit_available", "call", "transfer", "unlock"}

AfterUserCredit == {"credit_deposited", "credit_available", "call", "transfer"}

\* activation f has changed the balance of its user_deposit account
ChangedBalance(f) ==
    /\ f.amount > 0
    /\ \/ f.op = "withdraw_safe" /\ f.pc \in AfterUserDebit
       \/ f.op = "deposit_safe" /\ f.pc \in AfterUserCredit

\* C3: withdraw_safe and deposit_safe change user_deposit.balance only for a
\* request that carries a signer whose key is user_deposit.owner.
C3_PoolBalanceOnlyByOwner ==
    \A i \in 1..Len(pool_stack) :
        ChangedBalance(pool_stack[i]) => pool_stack[i].authorized

\* the last activation to return was a withdraw_safe whose handler ran
PoolWithdrawReturned == pool_ret.op = "withdraw_safe" /\ pool_ret.entered

\* C6: a withdraw_safe on a locked pool always fails with PoolLocked, leaves the
\* balance and the totals as they were and issues no transfer.
C6_LockedWithdrawFailsPoolLocked ==
    (PoolWithdrawReturned /\ pool_ret.locked_at_entry) =>
        /\ pool_ret.result = "PoolLocked"
        /\ pool_ret.post = pool_ret.pre
        /\ pool_ret.issued = 0

\* C7: from the commit of the balance debit of a withdraw_safe until its
\* transfer has returned the pool is locked; the transfer is issued and in
\* flight only on a locked pool.
C7_LockedFromDebitToTransfer ==
    \A i \in 1..Len(pool_stack) :
        (/\ pool_stack[i].op = "withdraw_safe"
         /\ pool_stack[i].pc \in {"debit_deposited", "debit_available", "call", "transfer"})
            => pool.locked

\* C7 witness: a withdraw_safe of a positive amount is in flight and another
\* activation runs inside its transfer
C7_Witness ==
    /\ Len(pool_stack) = 2
    /\ pool_stack[1].op = "withdraw_safe"
    /\ pool_stack[1].pc = "transfer"
    /\ pool_stack[1].amount > 0
    /\ pool.locked

\* C8: a withdraw_safe that set the lock returns with the pool unlocked, with
\* whatever result.
C8_LockDroppedOnReturn ==
    (PoolWithdrawReturned /\ pool_ret.set_lock) => ~pool_ret.post.locked

\* C9: a withdraw_safe nested in the transfer of a withdraw_safe finds the pool
\* locked and fails with PoolLocked, changing nothing.
C9_NestedWithdrawFailsPoolLocked ==
    (PoolWithdrawReturned /\ pool_ret.reentered) =>
        /\ pool_ret.locked_at_entry
        /\ pool_ret.result = "PoolLocked"
        /\ pool_ret.post = pool_ret.pre
        /\ pool_ret.issued = 0

-----------------------------------------------------------------------------
(* Claims about the CPI program, checked under SpecCpi *)

\* C4: safe_delegate_call issues its call, and succeeds, only for a target with
\* the trusted identity and a user_data account owned by it; it fails with
\* UntrustedProgram for another target and with WrongAccountOwner for another
\* owner, and then issues no call, whatever the instruction data.
C4_DelegateCallOnlyToTrusted ==
    cpi_call.op = "safe_delegate_call" =>
        /\ (cpi_call.result = "Ok" \/ cpi_call.issued # <<>>) =>
               /\ cpi_call.target_program = TRUSTED_PROGRAM_ID
               /\ cpi_call.user_data_owner = TRUSTED_PROGRAM_ID
               /\ \A i \in 1..Len(cpi_call.issued) :
                      cpi_call.issued[i].program = TRUSTED_PROGRAM_ID
        /\ (cpi_call.entered /\ cpi_call.target_program # TRUSTED_PROGRAM_ID) =>
               /\ cpi_call.result = "UntrustedProgram"
               /\ cpi_call.issued = <<>>
        /\ (/\ cpi_call.entered
            /\ cpi_call.target_program = TRUSTED_PROGRAM_ID
            /\ cpi_call.user_data_owner # TRUSTED_PROGRAM_ID) =>
               /\ cpi_call.result = "WrongAccountOwner"
               /\ cpi_call.issued = <<>>

\* C4 witness: a target outside the allow-list, presented with an account it
\* owns and with instruction data, was refused
C4_Witness ==
    /\ cpi_call.op = "safe_delegate_call"
    /\ cpi_call.entered
    /\ cpi_call.target_program = "evil_program"
    /\ cpi_call.user_data_owner = "evil_program"
    /\ cpi_call.data # <<>>
    /\ cpi_call.result = "UntrustedProgram"
    /\ cpi_call.issued = <<>>

\* the results that report a failed delegated call: CustomError::CpiFailed and
\* the call's own error returned by `?`
DelegatedCallFailed == {"CpiFailed", "CpiError"}

\* C5: safe_token_transfer, safe_delegate_call and safe_delegate_with_pda return
\* Ok only if the delegated call was issued and returned Ok; when the call
\* returns an error the operation returns an error.
C5_SuccessOnlyIfCallSucceeded ==
    cpi_call.op # "none" =>
        /\ cpi_call.result = "Ok" =>
               /\ Len(cpi_call.issued) = 1
               /\ cpi_call.issued[1].returned = "Ok"
        /\ (cpi_call.issued # <<>> /\ cpi_call.issued[1].returned # "Ok") =>
               cpi_call.result \in DelegatedCallFailed

\* C5 witness: the external contract failed a call that safe_delegate_call issued
C5_Witness ==
    /\ cpi_call.op = "safe_delegate_call"
    /\ Len(cpi_call.issued) = 1
    /\ cpi_call.issued[1].returned = "Err"
    /\ cpi_call.result = "CpiFailed"

-----------------------------------------------------------------------------
(* Claims about the arithmetic program, checked under SpecArith *)

\* C10: deposit_safe with total_deposited + amount > u64::MAX fails with
\* ArithmeticOverflow and withdraw_safe with amount > total_available fails with
\* ArithmeticUnderflow, both leaving the pool as it was; a successful deposit or
\* withdrawal stores the exact sum or difference; every field always lies in
\* 0..u64::MAX.
C10_NoWrappedValue ==
    /\ \A field \in DOMAIN arith_pool : arith_pool[field] \in U64
    /\ (/\ arith_call.op = "deposit_safe"
        /\ arith_call.pre.total_deposited + arith_call.amount > U64_MAX) =>
           /\ arith_call.result = "ArithmeticOverflow"
           /\ arith_pool = arith_call.pre
    /\ (/\ arith_call.op = "withdraw_safe"
        /\ arith_call.amount > arith_call.pre.total_available) =>
           /\ arith_call.result = "ArithmeticUnderflow"
           /\ arith_pool = arith_call.pre
    /\ (arith_call.op = "deposit_safe" /\ arith_call.result = "Ok") =>
           /\ arith_pool.total_deposited =
                  arith_call.pre.total_deposited + arith_call.amount
           /\ arith_pool.total_rewards =
                  arith_call.pre.total_rewards + arith_call.amount * reward_rate
    /\ (arith_call.op = "withdraw_safe" /\ arith_call.result = "Ok") =>
           arith_pool.total_available =
               arith_call.pre.total_available - arith_call.amount

\* C10 witness: total_deposited = u64::MAX, deposit 1
C10_Witness ==
    /\ arith_call.op = "deposit_safe"
    /\ arith_call.pre.total_deposited = U64_MAX
    /\ arith_call.amount = 1
    /\ arith_call.result = "ArithmeticOverflow"
    /\ arith_pool.total_deposited = U64_MAX

\* the checked steps of the pool's handlers fail with these
CheckedStepErrors == {"ArithmeticOverflow", "ArithmeticUnderflow"}

\* C11: no operation partially applies.  A deposit_safe of the arithmetic
\* program that fails leaves the Pool exactly as before the call (also when it
\* fails at amount * 100 or at total_rewards + reward although
\* total_deposited + amount fits), and a deposit_safe or withdraw_safe of the
\* reentrancy pool that fails at a checked step leaves user.balance,
\* total_deposited and total_available as before the call.
C11_NoPartialApplication ==
    /\ (arith_call.op = "deposit_safe" /\ arith_call.result # "Ok") =>
           arith_pool = arith_call.pre
    /\ (/\ pool_ret.op \in {"deposit_safe", "withdraw_safe"}
        /\ pool_ret.result \in CheckedStepErrors) =>
           /\ pool_ret.post.balance = pool_ret.pre.balance
           /\ pool_ret.post.total_deposited = pool_ret.pre.total_deposited
           /\ pool_ret.post.total_available = pool_ret.pre.total_available

\* the last instruction of the arithmetic program was mint_interest_safe
MintInterestCalled == arith_call.op = "mint_interest_safe"

\* floor(base_amount * interest_rate / 100), computed exactly
ExactInterest == (arith_call.amount * arith_call.rate) \div 100

\* the exact interest, or total_minted + interest, does not fit u64
InterestOutOfRange ==
    \/ ExactInterest > U64_MAX
    \/ arith_call.pre.total_minted + ExactInterest > U64_MAX

\* C12: for interest_rate <= 10000, mint_interest_safe fails with
\* ArithmeticOverflow exactly when floor(base_amount * interest_rate / 100), or
\* total_minted plus it, exceeds u64::MAX, and otherwise succeeds and adds
\* exactly that interest to total_minted; a product base_amount * interest_rate
\* above u64::MAX does not by itself make it fail.
C12_InterestWideIntermediate ==
    (MintInterestCalled /\ arith_call.rate <= MAX_INTEREST_RATE) =>
        /\ arith_call.result = "ArithmeticOverflow" <=> InterestOutOfRange
        /\ ~InterestOutOfRange =>
               /\ arith_call.result = "Ok"
               /\ arith_pool.total_minted =
                      arith_call.pre.total_minted + ExactInterest

\* C13: for every base_amount, mint_interest_safe with interest_rate > 10000
\* fails with InvalidInterestRate, never with ArithmeticOverflow, and leaves
\* total_minted and the rest of the Pool unchanged.
C13_RateValidatedFirst ==
    (MintInterestCalled /\ arith_call.rate > MAX_INTEREST_RATE) =>
        /\ arith_call.result = "InvalidInterestRate"
        /\ arith_pool = arith_call.pre

\* C13 witness: a rate above the bound with a product that does not fit u64
C13_Witness ==
    /\ MintInterestCalled
    /\ arith_call.rate > MAX_INTEREST_RATE
    /\ arith_call.amount * arith_call.rate > U64_MAX
    /\ arith_call.result = "InvalidInterestRate"
    /\ arith_pool.total_minted = arith_call.pre.total_minted

\* the errors that reject a token_program other than the token program:
\* Program<'info, Token> (InvalidProgramId), the handler's require_eq!
\* (InvalidTokenProgram)
InvalidTransferProgram == {"InvalidProgramId", "InvalidTokenProgram"}

\* every token transfer the last instruction of the CPI program issued
CpiTransfersIssued ==
    {i \in 1..Len(cpi_call.issued) : cpi_call.issued[i].kind = "transfer"}

\* C14: safe_token_transfer with a token_program other than the token program
\* fails with an invalid-program error (an unsigned request fails as not
\* signed before that) and issues no transfer; and safe_token_transfer,
\* safe_delegate_with_pda and the pool's withdraw_safe and deposit_safe issue
\* their transfer only to the token program.
C14_TransferOnlyToTokenProgram ==
    /\ (/\ cpi_call.op = "safe_token_transfer"
        /\ cpi_call.token_program # SPL_TOKEN_ID) =>
           /\ cpi_call.issued = <<>>
           /\ cpi_call.result \in InvalidTransferProgram \cup {"AccountNotSigner"}
    /\ \A i \in CpiTransfersIssued : cpi_call.issued[i].program = SPL_TOKEN_ID
    /\ \A i \in 1..Len(pool_stack) :
           pool_stack[i].issued > 0 => pool_stack[i].token_program = SPL_TOKEN_ID
    /\ pool_ret.issued > 0 => pool_ret.token_program = SPL_TOKEN_ID

\* C14 witness: a signed safe_token_transfer that presents another program
C14_Witness ==
    /\ cpi_call.op = "safe_token_transfer"
    /\ cpi_call.token_program = "evil_program"
    /\ cpi_call.result \in InvalidTransferProgram
    /\ cpi_call.issued = <<>>

\* the last instruction was safe_delegate_with_pda and its handler ran
DelegateWithPdaEntered ==
    cpi_call.op = "safe_delegate_with_pda" /\ cpi_call.entered

\* C15: safe_delegate_with_pda issues its transfer exactly when the presented
\* pda_signer is the key derived from the fixed seed and the program's id;
\* any other key, also one that the caller's bump derives, is refused with
\* InvalidPdaSigner and no transfer is issued, whatever bump and amount are.
C15_DerivedSignerRecomputed ==
    /\ cpi_call.op = "safe_delegate_with_pda" =>
           (cpi_call.issued # <<>> =>
                cpi_call.pda_signer = find_program_address[1])
    /\ DelegateWithPdaEntered =>
           /\ cpi_call.pda_signer # find_program_address[1] =>
                  /\ cpi_call.result = "InvalidPdaSigner"
                  /\ cpi_call.issued = <<>>
           /\ cpi_call.pda_signer = find_program_address[1] =>
                  /\ Len(cpi_call.issued) = 1
                  /\ cpi_call.issued[1].kind = "transfer"

\* C15 witness: the caller presents the key that its own bump derives, which
\* is not the key the program derives
C15_Witness ==
    /\ DelegateWithPdaEntered
    /\ cpi_call.pda_signer = create_program_address(cpi_call.bump)
    /\ cpi_call.pda_signer # find_program_address[1]
    /\ cpi_call.result = "InvalidPdaSigner"
    /\ cpi_call.issued = <<>>

\* the last instruction of the authority program was initialize_safe
AuthInitializeCalled == auth_call.op = "initialize_safe"

\* C16: initialize_safe succeeds only for an authority that has signed, on an
\* account that does not exist yet, and records that signer's key as owner;
\* applied to an existing account it fails and changes nothing; and no
\* initialize_safe or withdraw_safe, by any caller, changes the owner of an
\* existing account.
C16_OwnerSetOnceBySigner ==
    /\ (AuthInitializeCalled /\ auth_call.result = "Ok") =>
           /\ auth_call.is_signer
           /\ ~auth_call.pre.created
           /\ user_account.created
           /\ user_account.owner = auth_call.authority
    /\ (AuthInitializeCalled /\ auth_call.pre.created) =>
           /\ auth_call.result # "Ok"
           /\ user_account = auth_call.pre
    /\ (auth_call.op # "none" /\ auth_call.pre.created) =>
           /\ user_account.created
           /\ user_account.owner = auth_call.pre.owner
    /\ user_account.created => user_account.owner \in Keys

\* C16 witness: another signer applies initialize_safe to an existing account
C16_Witness ==
    /\ AuthInitializeCalled
    /\ auth_call.pre.created
    /\ auth_call.is_signer
    /\ auth_call.authority # auth_call.pre.owner
    /\ auth_call.result = "AccountAlreadyInUse"
    /\ user_account.owner = auth_call.pre.owner

\* no operation of the pool is in flight and no guard is held
Quiescent == pool_stack = <<>> /\ ~pool.locked

\* C17: total_available <= total_deposited in every quiescent state of the
\* pool (pool.locked = false, no operation in flight), after successful and
\* failed deposit_safe and withdraw_safe calls alike; the inequality is
\* violated only while pool.locked is true.
C17_AvailableAtMostDeposited ==
    /\ Quiescent => pool.total_available <= pool.total_deposited
    /\ pool.total_available > pool.total_deposited => pool.locked

\* C17 witness: a quiescent state after a withdrawal that left funds in the
\* pool, reached through a withdraw_safe whose debits were not yet complete
C17_Witness ==
    /\ Quiescent
    /\ pool_ret.op = "withdraw_safe"
    /\ pool_ret.result = "Ok"
    /\ pool_ret.amount > 0
    /\ pool.total_deposited > 0
    /\ pool.total_available = pool.total_deposited

\* the inequality is violated inside the guarded section of withdraw_safe
C17_Transient ==
    /\ pool.locked
    /\ pool.total_available > pool.total_deposited

\* activation f began while a withdraw_safe's delegated transfer was in flight
\* (the guard of the pool was held)
NestedUnderGuard(f) ==
    f.op \in {"withdraw_safe", "deposit_safe"} /\ f.reentered /\ f.locked_at_entry

\* C18: while the guard of a pool is held (pool.locked, a withdraw_safe's
\* transfer in flight) no nested withdraw_safe or deposit_safe on that pool
\* changes total_deposited, total_available or a user balance, and none issues
\* a second delegated transfer.
C18_GuardSerializesPool ==
    /\ (pool_stack # <<>> /\ NestedUnderGuard(Top)) =>
           /\ Top.issued = 0
           /\ Snapshot(Top.user).balance = Top.pre.balance
           /\ pool.total_deposited = Top.pre.total_deposited
           /\ pool.total_available = Top.pre.total_available
    /\ NestedUnderGuard(pool_ret) =>
           /\ pool_ret.issued = 0
           /\ pool_ret.post.balance = pool_ret.pre.balance
           /\ pool_ret.post.total_deposited = pool_ret.pre.total_deposited
           /\ pool_ret.post.total_available = pool_ret.pre.total_available

\* the last instruction was transfer_tokens_safe
TransferTokensCalled == validation_call.op = "transfer_tokens_safe"

\* both token accounts belong to the mint of the request
BothOfMint ==
    /\ validation_call.from_mint = validation_call.mint
    /\ validation_call.to_mint = validation_call.mint

\* C19: transfer_tokens_safe issues its token transfer only when token_from and
\* token_to both belong to the supplied mint and authority has signed; when a
\* token account belongs to another mint, or authority has not signed, the
\* operation fails and no transfer is issued.
C19_TransferOnlyValidatedAccounts ==
    TransferTokensCalled =>
        /\ validation_call.issued # <<>> =>
               BothOfMint /\ validation_call.is_signer
        /\ (~BothOfMint \/ ~validation_call.is_signer) =>
               /\ validation_call.result # "Ok"
               /\ validation_call.issued = <<>>
        /\ validation_call.result = "Ok" => Len(validation_call.issued) = 1

\* C19 witness: a signed request for the token program whose token_to belongs
\* to another mint
C19_Witness ==
    /\ TransferTokensCalled
    /\ validation_call.is_signer
    /\ validation_call.token_program = SPL_TOKEN_ID
    /\ validation_call.from_mint = validation_call.mint
    /\ validation_call.to_mint # validation_call.mint
    /\ validation_call.result = "ConstraintTokenMint"
    /\ validation_call.issued = <<>>

\* the statements of withdraw_safe that follow its three balance mutations
AfterEffects == {"call", "transfer", "unlock"}

\* C20: in withdraw_safe, pool.locked is set to true only after all checks have
\* passed and after user.balance, total_deposited and total_available have
\* been debited, immediately before the delegated transfer is issued; no
\* balance mutation of the operation follows the setting of the lock.
C20_LockSetAfterEffects ==
    \A i \in 1..Len(pool_stack) :
        (pool_stack[i].op = "withdraw_safe" /\ pool_stack[i].set_lock) =>
            /\ pool_stack[i].entered
            /\ pool_stack[i].pc \in AfterEffects

\* the innermost activation issues its delegated transfer in this step
IssuesTransfer ==
    /\ pool_stack # <<>>
    /\ Top.op \in {"withdraw_safe", "deposit_safe"}
    /\ Len(pool_stack') = Len(pool_stack)
    /\ pool_stack'[Len(pool_stack)].issued = Top.issued + 1

\* the signed amount by which activation f changes the three balances
SignedAmount(f) == IF f.op = "withdraw_safe" THEN 0 - f.amount ELSE f.amount

\* C21: Checks-Effects-Interactions.  At the step in which withdraw_safe or
\* deposit_safe issues its delegated transfer, user.balance, total_deposited
\* and total_available already hold the values the operation leaves (the
\* values before the call plus or minus amount), so that is the state any
\* code running during the transfer reads; no transfer is issued before it.
C21_EffectsBeforeInteraction ==
    [][IssuesTransfer =>
          /\ user_deposit'[Top.user].balance = Top.pre.balance + SignedAmount(Top)
          /\ pool'.total_deposited = Top.pre.total_deposited + SignedAmount(Top)
          /\ pool'.total_available = Top.pre.total_available + SignedAmount(Top)]_vars

\* C21 witness: a withdraw_safe of a positive amount waits for its transfer
\* with the three balances debited
C21_Witness ==
    /\ InTransfer
    /\ Top.op = "withdraw_safe"
    /\ Top.amount > 0
    /\ Top.issued = 1
    /\ user_deposit[Top.user].balance = Top.pre.balance - Top.amount
    /\ pool.total_deposited = Top.pre.total_deposited - Top.amount
    /\ pool.total_available = Top.pre.total_available - Top.amount

\* the withdraw_safe activations that have set the lock and not yet returned
LockHolders ==
    {i \in 1..Len(pool_stack) :
        pool_stack[i].op = "withdraw_safe" /\ pool_stack[i].set_lock}

\* C22: pool.locked is tested and set as one step.  A withdraw_safe that has
\* passed the test of pool.locked and not yet set it is the innermost
\* activation, has mutated nothing and issued no call, and the pool is still
\* unlocked; so at most one withdraw_safe activation is between setting the
\* lock and releasing it, however the calls are nested.
C22_CheckAndSetAtomic ==
    /\ \A i \in 1..Len(pool_stack) :
           (pool_stack[i].op = "withdraw_safe" /\ pool_stack[i].pc = "lock") =>
               /\ i = Len(pool_stack)
               /\ ~pool.locked
               /\ ~pool_stack[i].set_lock
               /\ pool_stack[i].issued = 0
               /\ Snapshot(pool_stack[i].user) = pool_stack[i].pre
    /\ Cardinality(LockHolders) <= 1
    /\ LockHolders # {} => pool.locked

\* C22 witness: while a withdraw_safe holds the lock in its transfer, a nested
\* withdraw_safe that its balance and the pool's funds would allow is refused
C22_Witness ==
    /\ InTransfer
    /\ Top.op = "withdraw_safe"
    /\ Top.set_lock
    /\ pool_ret.op = "withdraw_safe"
    /\ pool_ret.reentered
    /\ pool_ret.depth = 2
    /\ pool_ret.result = "PoolLocked"
    /\ Cardinality(LockHolders) = 1

\* C28: in the pool's reachable states, once the three checks of withdraw_safe
\* have passed none of its three checked subtractions fails: withdraw_safe
\* never returns ArithmeticUnderflow, and after the lock has been set the only
\* error it returns is the failure of the delegated transfer.
C28_UnderflowExitUnreachable ==
    /\ pool_ret.op = "withdraw_safe" => pool_ret.result # "ArithmeticUnderflow"
    /\ (pool_ret.op = "withdraw_safe" /\ pool_ret.set_lock) =>
           pool_ret.result \in {"Ok", "CpiError"}
    /\ \A i \in 1..Len(pool_stack) :
           (pool_stack[i].op = "withdraw_safe" /\ pool_stack[i].pc = "lock") =>
               /\ pool_stack[i].amount <= user_deposit[pool_stack[i].user].balance
               /\ pool_stack[i].amount <= pool.total_deposited
               /\ pool_stack[i].amount <= pool.total_available

\* C28 witness: a withdraw_safe of a positive amount set the lock, made its
\* three debits and failed in its transfer
C28_Witness ==
    /\ pool_ret.op = "withdraw_safe"
    /\ pool_ret.set_lock
    /\ pool_ret.amount > 0
    /\ pool_ret.issued = 1
    /\ pool_ret.result = "CpiError"
    /\ pool_ret.post.total_deposited = pool_ret.pre.total_deposited - pool_ret.amount

RECURSIVE SumOfBalances(_)
\* the sum of the balances of the user_deposit accounts in ds
SumOfBalances(ds) ==
    IF ds = {} THEN 0
    ELSE LET d == CHOOSE x \in ds : TRUE
         IN user_deposit[d].balance + SumOfBalances(ds \ {d})

\* C29: deposit_safe and withdraw_safe change user.balance, total_deposited
\* and total_available by the same signed amount, so from initialize_pool_safe
\* with all balances zero, total_available = total_deposited = the sum of all
\* user balances in every quiescent state.
C29_TotalsEqualSumOfBalances ==
    (Quiescent /\ pool.created) =>
        /\ pool.total_available = pool.total_deposited
        /\ pool.total_deposited = SumOfBalances(Deposits)

\* C30: from a Pool whose totals are all zero, total_rewards =
\* 100 * total_deposited after any sequence of deposit_safe, withdraw_safe and
\* mint_interest_safe calls; hence total_deposited never exceeds
\* floor(u64::MAX / 100), and a deposit that would take it above that bound
\* fails with ArithmeticOverflow and leaves it there.
C30_RewardsFollowDeposits ==
    /\ arith_pool.total_rewards = reward_rate * arith_pool.total_deposited
    /\ arith_pool.total_deposited <= U64_MAX \div reward_rate


-----------------------------------------------------------------------------
(* Claims about the vulnerable reentrancy program, checked under SpecVulnPool *)

\* C23: withdraw_vulnerable issues its transfer before it debits: an
\* activation that is about to issue its transfer, or waits for it, has run
\* none of its debits, the balance and the total at the issue are the ones its
\* check saw, and an activation that has debited has issued its transfer
\* before.  A call that re-enters during the transfer therefore checks a
\* balance that holds no debit of the activations it is nested in.
C23_TransferBeforeDebit ==
    /\ \A i \in 1..Len(vuln_stack) :
           vuln_stack[i].pc \in {"call", "transfer"} => vuln_stack[i].debits = 0
    /\ VulnRunning("call") =>
           /\ vuln_user.balance = VulnTop.pre.balance
           /\ vuln_pool.total_deposited = VulnTop.pre.total_deposited
    /\ vuln_ret.debits > 0 => vuln_ret.issued = 1

\* an outermost withdraw_vulnerable of a positive amount has returned Ok, and
\* the transfers that succeeded since it began moved more than the balance
\* recorded before it
C23_Witness ==
    /\ vuln_stack = <<>>
    /\ vuln_ret.op = "withdraw_vulnerable"
    /\ vuln_ret.depth = 1
    /\ vuln_ret.result = "Ok"
    /\ vuln_ret.amount > 0
    /\ vuln_run.transferred > vuln_ret.pre.balance

-----------------------------------------------------------------------------
(* Claims about the vulnerable authority program, checked under SpecUnsafeAuth *)

\* the last instruction was withdraw_unsafe, signed by a key that is not the
\* recorded owner, for an amount the balance covers
WithdrawnByStranger ==
    /\ unsafe_auth_call.op = "withdraw_unsafe"
    /\ unsafe_auth_call.is_signer
    /\ unsafe_auth_call.authority # unsafe_auth_call.pre.owner
    /\ unsafe_auth_call.amount <= unsafe_auth_call.pre.balance

\* C24: withdraw_unsafe signed by a key other than the recorded owner, for an
\* amount within the balance, succeeds and reduces the balance by the amount,
\* whereas withdraw_safe on the same account and inputs fails and leaves the
\* balance as it was.
C24_WithdrawUnsafeIgnoresOwner ==
    WithdrawnByStranger =>
        LET safe == auth_withdraw_safe(unsafe_auth_call.pre, unsafe_auth_call.authority,
                                       unsafe_auth_call.amount)
        IN /\ unsafe_auth_call.result = "Ok"
           /\ unsafe_account.balance =
                  unsafe_auth_call.pre.balance - unsafe_auth_call.amount
           /\ unsafe_account.owner = unsafe_auth_call.pre.owner
           /\ safe.result \in AuthorizationErrors
           /\ safe.account.balance = unsafe_auth_call.pre.balance

\* a key that is not the owner has withdrawn a positive amount from an
\* account that another key owns
C24_Witness ==
    /\ WithdrawnByStranger
    /\ unsafe_auth_call.pre.owner \in Keys
    /\ unsafe_auth_call.amount > 0
    /\ unsafe_auth_call.result = "Ok"
    /\ unsafe_account.balance < unsafe_auth_call.pre.balance

\* the last instruction was initialize_unsafe with valid accounts
UnsafeInitializeCalled ==
    /\ unsafe_auth_call.op = "initialize_unsafe"
    /\ SystemProgramCheck(unsafe_auth_call.system_program)

\* C25: initialize_unsafe succeeds for any authority, signed or not, and on any
\* account, initialized or not: it sets owner to the authority and balance to
\* initial_amount.
C25_InitializeUnsafeOverwrites ==
    UnsafeInitializeCalled =>
        /\ unsafe_auth_call.result = "Ok"
        /\ unsafe_account.owner = unsafe_auth_call.authority
        /\ unsafe_account.balance = unsafe_auth_call.amount

\* an authority that has not signed has taken over an account that another
\* key owned, and has changed its balance
C25_Witness ==
    /\ UnsafeInitializeCalled
    /\ ~unsafe_auth_call.is_signer
    /\ unsafe_auth_call.pre.owner \in Keys
    /\ unsafe_auth_call.pre.owner # unsafe_auth_call.authority
    /\ unsafe_auth_call.result = "Ok"
    /\ unsafe_account.owner = unsafe_auth_call.authority
    /\ unsafe_account.balance # unsafe_auth_call.pre.balance

-----------------------------------------------------------------------------
(* Claims about the vulnerable arithmetic program, checked under SpecUnsafeArith *)

\* C26: the vulnerable operations never fail and wrap modulo 2^64:
\* deposit_unsafe leaves total_deposited = (total_deposited + amount) mod 2^64
\* (u64::MAX plus 1 gives 0) and total_rewards = (total_rewards + (amount * 100
\* mod 2^64)) mod 2^64; withdraw_unsafe of more than total_available leaves
\* total_available = 2^64 - (amount - total_available).
C26_UnsafeArithmeticWraps ==
    LET c == unsafe_arith_call
    IN /\ c.result \in {"none", "Ok"}
       /\ c.op = "deposit_unsafe" =>
              /\ unsafe_pool.total_deposited =
                     (c.pre.total_deposited + c.amount) % U64_MOD
              /\ unsafe_pool.total_rewards =
                     (c.pre.total_rewards + ((c.amount * reward_rate) % U64_MOD)) % U64_MOD
              /\ (c.pre.total_deposited = U64_MAX /\ c.amount = 1) =>
                     unsafe_pool.total_deposited = 0
       /\ c.op = "withdraw_unsafe" =>
              unsafe_pool.total_available =
                  IF c.amount > c.pre.total_available
                  THEN U64_MOD - (c.amount - c.pre.total_available)
                  ELSE c.pre.total_available - c.amount

\* a deposit of 1 into a pool whose total_deposited is u64::MAX has returned
\* Ok and left total_deposited at 0
C26_Witness ==
    /\ unsafe_arith_call.op = "deposit_unsafe"
    /\ unsafe_arith_call.pre.total_deposited = U64_MAX
    /\ unsafe_arith_call.amount = 1
    /\ unsafe_arith_call.result = "Ok"
    /\ unsafe_pool.total_deposited = 0

-----------------------------------------------------------------------------
(* Claims about the vulnerable CPI program, checked under SpecUnsafeCpi *)

\* the handler of unsafe_token_transfer has run
UnsafeTransferEntered ==
    unsafe_cpi_call.op = "unsafe_token_transfer" /\ unsafe_cpi_call.entered

\* C27: unsafe_token_transfer issues its call to whatever program is supplied
\* as token_program and returns Ok whether the call returned Ok or Err.
C27_TransferResultIgnored ==
    UnsafeTransferEntered =>
        /\ Len(unsafe_cpi_call.issued) = 1
        /\ unsafe_cpi_call.issued[1].program = unsafe_cpi_call.program
        /\ unsafe_cpi_call.result = "Ok"

\* a call to a program that is not the token program has failed, and
\* unsafe_token_transfer has returned Ok
C27_Witness ==
    /\ UnsafeTransferEntered
    /\ unsafe_cpi_call.program # SPL_TOKEN_ID
    /\ unsafe_cpi_call.issued[1].returned = "Err"
    /\ unsafe_cpi_call.result = "Ok"


-----------------------------------------------------------------------------
(* Frame of the arithmetic program, checked under SpecArith *)

\* the fields of the Pool
PoolFields == {"total_deposited", "total_available", "total_rewards", "total_minted"}

\* the fields a successful call of op may change
ChangedBy(op) ==
    CASE op = "deposit_safe" -> {"total_deposited", "total_rewards"}
      [] op = "withdraw_safe" -> {"total_available"}
      [] op = "mint_interest_safe" -> {"total_minted"}

\* C31: a successful deposit_safe changes only total_deposited and
\* total_rewards, a successful withdraw_safe only total_available, a
\* successful mint_interest_safe only total_minted; and no instruction,
\* successful or not, increases total_available.
C31_FrameOfCheckedOperations ==
    [][/\ arith_pool'.total_available <= arith_pool.total_available
       /\ arith_call'.result = "Ok" =>
              \A f \in PoolFields \ ChangedBy(arith_call'.op) :
                  arith_pool'[f] = arith_pool[f]]_vars

\* a withdraw_safe has succeeded and lowered total_available of a pool whose
\* other totals are not all zero, which it has left as they were
C31_Witness ==
    /\ arith_call.op = "withdraw_safe"
    /\ arith_call.result = "Ok"
    /\ arith_call.amount > 0
    /\ arith_call.pre.total_deposited > 0
    /\ arith_pool.total_available < arith_call.pre.total_available
    /\ \A f \in PoolFields \ {"total_available"} : arith_pool[f] = arith_call.pre[f]


-----------------------------------------------------------------------------
(* Order of the checks, checked under SpecChecks *)

\* the last withdraw_safe was signed by a key that is not the owner, for more
\* than the balance
StrangerOverdraws ==
    /\ AuthWithdrawCalled
    /\ auth_call.is_signer
    /\ auth_call.authority # auth_call.pre.owner
    /\ auth_call.amount > auth_call.pre.balance

\* the last safe_delegate_call named an untrusted target and a user_data
\* account that the trusted program does not own
UntrustedTargetAndOwner ==
    /\ cpi_call.op = "safe_delegate_call"
    /\ cpi_call.entered
    /\ cpi_call.target_program # TRUSTED_PROGRAM_ID
    /\ cpi_call.user_data_owner # TRUSTED_PROGRAM_ID

\* C32: the first failing check decides the error: withdraw_safe by a signer
\* that is not the owner, for more than the balance, returns Unauthorized (not
\* InsufficientFunds); safe_delegate_call with an untrusted target and a wrongly
\* owned user_data returns UntrustedProgram (not WrongAccountOwner).
C32_FirstFailingCheckDecides ==
    /\ StrangerOverdraws => auth_call.result = "Unauthorized"
    /\ UntrustedTargetAndOwner => cpi_call.result = "UntrustedProgram"

\* both cases have happened: each call failed two checks and returned the
\* error of the first
C32_Witness ==
    /\ StrangerOverdraws
    /\ auth_call.result = "Unauthorized"
    /\ UntrustedTargetAndOwner
    /\ cpi_call.result = "UntrustedProgram"


-----------------------------------------------------------------------------
(* The signer seeds of safe_delegate_with_pda, checked under SpecCpi *)

\* C33: whenever safe_delegate_with_pda issues its signed transfer, the key
\* that its signer seeds (the fixed seed and the caller's bump) derive is the
\* pda_signer that was verified; no transfer is issued under another identity.
C33_SeedsDeriveVerifiedSigner ==
    (cpi_call.op = "safe_delegate_with_pda" /\ cpi_call.issued # <<>>) =>
        cpi_call.issued[1].signer = cpi_call.pda_signer

=============================================================================
